---- MODULE Spec2Model ----
(***************************************************************************)
(* Habit-Flow: the remote-backed sync hook useHabitsDb (useHabitsDb.ts),   *)
(* the record store it talks to (the SQL schema with its constraints and   *)
(* row-level-security policies) and the owner changes that re-run its load.*)
(*                                                                         *)
(* Every remote call of a handler is three steps of the model: the handler *)
(* issues the request (the request is in flight: ops[n].pc = "sent"), the  *)
(* store serves it or it fails (pc = "replied"), and the handler's         *)
(* continuation after the await runs.  Requests of different invocations   *)
(* are served, and their continuations run, in any order.                  *)
(***************************************************************************)
EXTENDS Integers, Sequences, FiniteSets, TLC

\* ------------------------------------------------------------------ bounds
\* invocations (loads, owner changes and mutations) in one behaviour
MaxOps == 3
\* invocations awaiting a remote call at the same time
MaxInFlight == 2
\* invocations in one behaviour of SpecToggle and of SpecSleep
ToggleOps == 5
SleepOps == 3

\* ------------------------------------------------------------ input domains
Users == {"u1", "u2"}
NoUser == "none"
Dates == {1, 2}
\* hours in hundredths of an hour: 7.00, 7.25, 24.04 and 25.00
Hours == {700, 725, 2404, 2500}
\* the arguments the presentation passes
HabitArgs == {<<"run", "red">>}
HabitUpdates == {[name |-> "read"], [name |-> "run", color |-> "blue"]}
TaskArgs == {<<"buy", 1, "red">>, <<"buy", 1, "undefined">>}
TaskUpdates == {[completed |-> TRUE], [title |-> "call"]}
NoteArgs == {<<"hi", 1>>}
NoteUpdates == {"yo"}
SleepArgs == {<<1, 725>>, <<2, 2500>>}
Null == "null"
Undefined == "undefined"

VARIABLES
  user,          \* useAuth().user: the authenticated owner's id, or NoUser
  db,            \* the record store: one set of rows per table
  seq,           \* the store's source of fresh ids and of now()
  habits,        \* useState<Habit[]>
  sleepEntries,  \* useState<SleepEntry[]>
  tasks,         \* useState<CalendarTask[]>
  notes,         \* useState<Note[]>
  loading,       \* useState(true)
  ops,           \* invocations suspended at an await, by invocation number
  started,       \* number of invocations so far
  limit,         \* the number of invocations a behaviour is cut off at
  called,        \* the handler the latest handler step invoked, with its arguments
  toast,         \* the notice the latest handler step produced, "" if none
  owner,         \* the user_id each id was created with (no request rewrites it)
  prior          \* the invocation that resolved last, if it ran alone

vars == <<user, db, seq, habits, sleepEntries, tasks, notes, loading, ops, started,
          limit, called, toast, owner, prior>>
local == <<habits, sleepEntries, tasks, notes>>
\* no handler was invoked by the latest handler step; no invocation ran alone
NoCall == <<"", <<>>>>
NoPrior == [kind |-> "none"]

\* ------------------------------------------------------------------ helpers
Range(s) == {s[i] : i \in 1..Len(s)}

\* every enumeration of a finite set: a select without ORDER BY returns the
\* rows in an order the store chooses
Orders(S) == {s \in [1..Cardinality(S) -> S] : Range(s) = S}

RECURSIVE SortAsc(_)
\* rows by ascending created_at
SortAsc(S) ==
  IF S = {} THEN <<>>
  ELSE LET r == CHOOSE x \in S : \A y \in S : x.created_at <= y.created_at
       IN <<r>> \o SortAsc(S \ {r})

RECURSIVE Reverse(_)
Reverse(s) == IF s = <<>> THEN <<>> ELSE Reverse(Tail(s)) \o <<Head(s)>>

\* rows by descending created_at
SortDesc(S) == Reverse(SortAsc(S))

MapSeq(s, F(_)) == [i \in 1..Len(s) |-> F(s[i])]
FilterSeq(s, P(_)) == SelectSeq(s, P)

\* { ...r, ...updates }: the fields of updates override those of r
Merge(r, updates) ==
  [f \in DOMAIN r \cup DOMAIN updates |->
     IF f \in DOMAIN updates THEN updates[f] ELSE r[f]]

\* ---------------------------------------------------------------- in flight
InFlight == DOMAIN ops
CanStart == started < limit /\ Cardinality(InFlight) < MaxInFlight

Put(n, o) == [k \in InFlight \cup {n} |-> IF k = n THEN o ELSE ops[k]]
Drop(n) == [k \in InFlight \ {n} |-> ops[k]]

\* the local state and the store as an invocation finds them
Snapshot == [habits |-> habits, sleepEntries |-> sleepEntries, tasks |-> tasks,
             notes |-> notes, db |-> db]

\* An invocation suspended at its first await.  kind, stage, uid (user.id of
\* the closure), arg and keep are the handler's locals; auth is the session
\* the client sends the request with; pc, ok and data are the request and its
\* response; reqs counts the requests of the invocation; snap is the state it
\* started in and after the invocation that had just resolved, if this one
\* started with nothing else in flight.
NewOp(kind, stage, arg, u, snap, alone, after) ==
  [kind |-> kind, stage |-> stage, uid |-> u, auth |-> u, arg |-> arg,
   pc |-> "sent", ok |-> FALSE, data |-> <<>>, keep |-> <<>>, reqs |-> 1,
   snap |-> snap, alone |-> alone, after |-> after]

Request(kind, stage, arg) ==
  NewOp(kind, stage, arg, user, Snapshot, InFlight = {},
        IF InFlight = {} THEN prior ELSE NoPrior)

\* what prior becomes when invocation n resolves: n itself if nothing else
\* ran between its call and now
Resolved(n) ==
  IF ops[n].alone /\ InFlight = {n} /\ started = n
  THEN [kind |-> ops[n].kind, arg |-> ops[n].arg, ok |-> ops[n].ok,
        snap |-> ops[n].snap,
        after |-> IF ops[n].after.kind = "none" THEN NoPrior
                  ELSE [kind |-> ops[n].after.kind, arg |-> ops[n].after.arg,
                        ok |-> ops[n].after.ok]]
  ELSE NoPrior

\* -------------------------------------------------------------- the store
\* A result of a request: the store after it, whether it returned an error,
\* and the data it returned.
Result(d, s, ok, data) == [db |-> d, seq |-> s, ok |-> ok, data |-> data]
Error == Result(db, seq, FALSE, <<>>)

\* USING (auth.uid() = user_id): the rows of a table the session may see or touch
Visible(rows, auth) == {r \in rows : r.user_id = auth}

\* NUMERIC(3,1): a value is rounded to one decimal place (half away from zero)
Numeric31(h) == IF h >= 0 THEN ((h + 5) \div 10) * 10 ELSE -(((-h) + 5) \div 10) * 10

\* CHECK (hours >= 0 AND hours <= 24), on the stored value
HoursCheck(h) == h >= 0 /\ h <= 2400

\* .from('habits').select('*').eq('user_id', uid).order('created_at', asc)
SelectHabits(auth, uid) ==
  {Result(db, seq, TRUE, SortAsc({r \in Visible(db.habits, auth) : r.user_id = uid}))}

\* .from('habit_completions').select('*').eq('user_id', uid)
SelectCompletions(auth, uid) ==
  {Result(db, seq, TRUE, s) :
     s \in Orders({r \in Visible(db.completions, auth) : r.user_id = uid})}

\* .from('sleep_entries').select('*').eq('user_id', uid)
SelectSleep(auth, uid) ==
  {Result(db, seq, TRUE, s) :
     s \in Orders({r \in Visible(db.sleep, auth) : r.user_id = uid})}

\* .from('tasks').select('*').eq('user_id', uid).order('created_at', asc)
SelectTasks(auth, uid) ==
  {Result(db, seq, TRUE, SortAsc({r \in Visible(db.tasks, auth) : r.user_id = uid}))}

\* .from('notes').select('*').eq('user_id', uid).order('created_at', desc)
SelectNotes(auth, uid) ==
  {Result(db, seq, TRUE, SortDesc({r \in Visible(db.notes, auth) : r.user_id = uid}))}

\* .from('habits').insert({name, color, user_id}).select().single()
InsertHabit(auth, uid, name, color) ==
  IF auth # uid THEN {Error}
  ELSE LET row == [id |-> seq + 1, user_id |-> uid, name |-> name, color |-> color,
                   created_at |-> seq + 1]
       IN {Result([db EXCEPT !.habits = @ \cup {row}], seq + 1, TRUE, row)}

\* the columns an update of habits sets: name and color, each only when given
HabitColumns(updates) ==
  [f \in DOMAIN updates \cap {"name", "color"} |-> updates[f]]

\* .from('habits').update({name, color}).eq('id', id).eq('user_id', uid)
UpdateHabitRows(auth, uid, id, updates) ==
  LET hit(r) == r.user_id = auth /\ r.user_id = uid /\ r.id = id
  IN {Result([db EXCEPT !.habits =
                {IF hit(r) THEN Merge(r, HabitColumns(updates)) ELSE r : r \in @}],
             seq, TRUE, <<>>)}

\* .from('habits').delete().eq('id', id).eq('user_id', uid); the completions
\* that reference a deleted habit go with it (ON DELETE CASCADE)
DeleteHabitRows(auth, uid, id) ==
  LET gone == {r \in Visible(db.habits, auth) : r.user_id = uid /\ r.id = id}
      ids == {r.id : r \in gone}
  IN {Result([db EXCEPT !.habits = @ \ gone,
                        !.completions = {c \in @ : c.habit_id \notin ids}],
             seq, TRUE, <<>>)}

\* .from('habit_completions').delete().eq('habit_id', h).eq('date', d).eq('user_id', uid)
DeleteCompletion(auth, uid, h, d) ==
  LET gone == {c \in Visible(db.completions, auth) :
                 c.user_id = uid /\ c.habit_id = h /\ c.date = d}
  IN {Result([db EXCEPT !.completions = @ \ gone], seq, TRUE, <<>>)}

\* .from('habit_completions').insert({habit_id, date, user_id}): refused by the
\* insert policy, by REFERENCES habits(id) and by UNIQUE(habit_id, date)
InsertCompletion(auth, uid, h, d) ==
  IF \/ auth # uid
     \/ h \notin {r.id : r \in db.habits}
     \/ \E c \in db.completions : c.habit_id = h /\ c.date = d
  THEN {Error}
  ELSE {Result([db EXCEPT !.completions =
                  @ \cup {[habit_id |-> h, user_id |-> uid, date |-> d]}],
               seq, TRUE, <<>>)}

\* .from('sleep_entries').upsert({date, hours, user_id}, {onConflict: 'user_id,date'})
UpsertSleep(auth, uid, d, h) ==
  IF auth # uid \/ ~HoursCheck(Numeric31(h)) THEN {Error}
  ELSE LET row == [user_id |-> uid, date |-> d, hours |-> Numeric31(h)]
       IN {Result([db EXCEPT !.sleep =
                     {r \in @ : ~(r.user_id = uid /\ r.date = d)} \cup {row}],
                  seq, TRUE, <<>>)}

\* .from('tasks').insert({title, date, color, user_id}).select().single():
\* an undefined color is not sent and the column is NULL; completed defaults to false
InsertTask(auth, uid, title, d, color) ==
  IF auth # uid THEN {Error}
  ELSE LET row == [id |-> seq + 1, user_id |-> uid, title |-> title, date |-> d,
                   completed |-> FALSE,
                   color |-> IF color = Undefined THEN Null ELSE color,
                   created_at |-> seq + 1]
       IN {Result([db EXCEPT !.tasks = @ \cup {row}], seq + 1, TRUE, row)}

\* .from('tasks').update(updates).eq('id', id).eq('user_id', uid)
UpdateTaskRows(auth, uid, id, updates) ==
  LET hit(r) == r.user_id = auth /\ r.user_id = uid /\ r.id = id
  IN {Result([db EXCEPT !.tasks = {IF hit(r) THEN Merge(r, updates) ELSE r : r \in @}],
             seq, TRUE, <<>>)}

\* .from('tasks').delete().eq('id', id).eq('user_id', uid)
DeleteTaskRows(auth, uid, id) ==
  {Result([db EXCEPT !.tasks =
             {r \in @ : ~(r.user_id = auth /\ r.user_id = uid /\ r.id = id)}],
          seq, TRUE, <<>>)}

\* .from('notes').insert({content, date, user_id}).select().single()
InsertNote(auth, uid, content, d) ==
  IF auth # uid THEN {Error}
  ELSE LET row == [id |-> seq + 1, user_id |-> uid, content |-> content, date |-> d,
                   created_at |-> seq + 1]
       IN {Result([db EXCEPT !.notes = @ \cup {row}], seq + 1, TRUE, row)}

\* .from('notes').update({content}).eq('id', id).eq('user_id', uid)
UpdateNoteRows(auth, uid, id, content) ==
  LET hit(r) == r.user_id = auth /\ r.user_id = uid /\ r.id = id
  IN {Result([db EXCEPT !.notes =
                {IF hit(r) THEN [r EXCEPT !.content = content] ELSE r : r \in @}],
             seq, TRUE, <<>>)}

\* .from('notes').delete().eq('id', id).eq('user_id', uid)
DeleteNoteRows(auth, uid, id) ==
  {Result([db EXCEPT !.notes =
             {r \in @ : ~(r.user_id = auth /\ r.user_id = uid /\ r.id = id)}],
          seq, TRUE, <<>>)}

\* what the store can answer to the request of an invocation
Outcomes(o) ==
  CASE o.kind = "load" /\ o.stage = "habits" -> SelectHabits(o.auth, o.uid)
    [] o.kind = "load" /\ o.stage = "completions" -> SelectCompletions(o.auth, o.uid)
    [] o.kind = "load" /\ o.stage = "sleep" -> SelectSleep(o.auth, o.uid)
    [] o.kind = "load" /\ o.stage = "tasks" -> SelectTasks(o.auth, o.uid)
    [] o.kind = "load" /\ o.stage = "notes" -> SelectNotes(o.auth, o.uid)
    [] o.kind = "addHabit" -> InsertHabit(o.auth, o.uid, o.arg[1], o.arg[2])
    [] o.kind = "updateHabit" -> UpdateHabitRows(o.auth, o.uid, o.arg[1], o.arg[2])
    [] o.kind = "deleteHabit" -> DeleteHabitRows(o.auth, o.uid, o.arg[1])
    [] o.kind = "toggleHabitDay" /\ o.stage = "delete" ->
         DeleteCompletion(o.auth, o.uid, o.arg[1], o.arg[2])
    [] o.kind = "toggleHabitDay" /\ o.stage = "insert" ->
         InsertCompletion(o.auth, o.uid, o.arg[1], o.arg[2])
    [] o.kind = "addSleepEntry" -> UpsertSleep(o.auth, o.uid, o.arg[1], o.arg[2])
    [] o.kind = "addTask" -> InsertTask(o.auth, o.uid, o.arg[1], o.arg[2], o.arg[3])
    [] o.kind = "updateTask" -> UpdateTaskRows(o.auth, o.uid, o.arg[1], o.arg[2])
    [] o.kind = "deleteTask" -> DeleteTaskRows(o.auth, o.uid, o.arg[1])
    [] o.kind = "addNote" -> InsertNote(o.auth, o.uid, o.arg[1], o.arg[2])
    [] o.kind = "updateNote" -> UpdateNoteRows(o.auth, o.uid, o.arg[1], o.arg[2])
    [] o.kind = "deleteNote" -> DeleteNoteRows(o.auth, o.uid, o.arg[1])

\* the store serves the request of invocation n
Serve(n) ==
  /\ n \in InFlight
  /\ ops[n].pc = "sent"
  /\ \E r \in Outcomes(ops[n]) :
       /\ db' = r.db
       /\ seq' = r.seq
       /\ ops' = [ops EXCEPT ![n].pc = "replied", ![n].ok = r.ok, ![n].data = r.data]
       /\ owner' = [id \in 1..r.seq |-> IF id <= seq THEN owner[id] ELSE ops[n].uid]
  /\ UNCHANGED <<user, habits, sleepEntries, tasks, notes, loading, started, limit,
                 called, toast, prior>>

\* the remote call of invocation n returns an error without having reached
\* the tables (the network, the server)
Fail(n) ==
  /\ n \in InFlight
  /\ ops[n].pc = "sent"
  /\ ops' = [ops EXCEPT ![n].pc = "replied", ![n].ok = FALSE, ![n].data = <<>>]
  /\ UNCHANGED <<user, db, seq, habits, sleepEntries, tasks, notes, loading, started,
                 limit, called, toast, owner, prior>>

\* ------------------------------------------------------------ handler steps
\* a handler is invoked
Call(name, arg) ==
  /\ CanStart
  /\ started' = started + 1
  /\ called' = <<name, arg>>
  /\ toast' = ""
  /\ prior' = NoPrior
  /\ UNCHANGED <<db, seq, owner, limit>>

\* a handler that returns before any await
Return(name, arg) ==
  /\ Call(name, arg)
  /\ UNCHANGED <<user, habits, sleepEntries, tasks, notes, loading, ops>>

\* a handler that sends its remote write and awaits it
Await(name, stage, arg) ==
  /\ Call(name, arg)
  /\ ops' = Put(started + 1, Request(name, stage, arg))
  /\ UNCHANGED <<user, habits, sleepEntries, tasks, notes, loading>>

\* the handler of invocation n resumes after its await
Resumes(n, kind) ==
  /\ n \in InFlight
  /\ ops[n].kind = kind
  /\ ops[n].pc = "replied"

\* the handler of invocation n runs to its end, with notice msg ("" for none)
Settle(n, msg) ==
  /\ toast' = msg
  /\ ops' = Drop(n)
  /\ called' = NoCall
  /\ prior' = Resolved(n)
  /\ UNCHANGED <<user, db, seq, owner, started, limit>>

\* a bug: the handler sends its write again when it failed
RejectedRetries(n, msg) ==
  /\ toast' = msg
  /\ ops' = [ops EXCEPT ![n].pc = "sent", ![n].reqs = @ + 1]
  /\ called' = NoCall
  /\ prior' = NoPrior
  /\ UNCHANGED <<user, db, seq, owner, started, limit>>
  /\ UNCHANGED <<habits, sleepEntries, tasks, notes, loading>>

\* `if (error) { toast.error(msg); return; }`
Rejected(n, msg) ==
  /\ Settle(n, msg)
  /\ UNCHANGED <<habits, sleepEntries, tasks, notes, loading>>

\* ------------------------------------------------------- fetchData (the load)
\* t.color || undefined
ColorOrUndefined(c) == IF c = Null \/ c = "" THEN Undefined ELSE c

\* a bug: the join lacks the filter on habit_id
CompletedDaysOfAny(h, completionsData) ==
  LET date(c) == c.date
  IN MapSeq(completionsData, date)

\* the dates of the fetched completion rows of habit row h, in the order fetched
CompletedDaysOf(h, completionsData) ==
  LET mine(c) == c.habit_id = h.id
      date(c) == c.date
  IN MapSeq(FilterSeq(completionsData, mine), date)

\* habitsWithCompletions
HabitsWithCompletions(habitsData, completionsData) ==
  LET habit(h) == [id |-> h.id, name |-> h.name, color |-> h.color,
                   createdAt |-> h.created_at,
                   completedDays |-> CompletedDaysOf(h, completionsData)]
  IN MapSeq(habitsData, habit)

SleepEntryOf(s) == [date |-> s.date, hours |-> s.hours]
TaskOf(t) == [id |-> t.id, title |-> t.title, date |-> t.date,
              completed |-> t.completed, color |-> ColorOrUndefined(t.color)]
NoteOf(r) == [id |-> r.id, content |-> r.content, date |-> r.date,
              createdAt |-> r.created_at]

\* a bug: the signed-out branch forgets setNotes([])
FetchDataKeepsNotes(u) ==
  IF u = NoUser
  THEN /\ habits' = <<>>
       /\ sleepEntries' = <<>>
       /\ tasks' = <<>>
       /\ notes' = notes
       /\ loading' = FALSE
       /\ ops' = ops
  ELSE /\ ops' = Put(started + 1,
                     NewOp("load", "habits", <<>>, u, Snapshot, InFlight = {},
                           IF InFlight = {} THEN prior ELSE NoPrior))
       /\ UNCHANGED <<habits, sleepEntries, tasks, notes, loading>>

\* fetchData() under the owner u of the render that built it
FetchData(u) ==
  IF u = NoUser
  THEN /\ habits' = <<>>
       /\ sleepEntries' = <<>>
       /\ tasks' = <<>>
       /\ notes' = <<>>
       /\ loading' = FALSE
       /\ ops' = ops
  ELSE /\ ops' = Put(started + 1,
                     NewOp("load", "habits", <<>>, u, Snapshot, InFlight = {},
                           IF InFlight = {} THEN prior ELSE NoPrior))
       /\ UNCHANGED <<habits, sleepEntries, tasks, notes, loading>>

\* useAuth() yields another user object (sign-in, sign-out, another account, a
\* refreshed session of the same account): fetchData is rebuilt and the effect
\* runs it
AuthChange(u) ==
  /\ Call("fetchData", <<>>)
  /\ user' = u
  /\ FetchData(u)

\* the next fetch of the load, sent with the session of the moment
NextFetch(n, stage, keep) ==
  /\ ops' = [ops EXCEPT ![n].stage = stage, ![n].pc = "sent", ![n].auth = user,
                        ![n].keep = keep, ![n].data = <<>>, ![n].reqs = @ + 1]
  /\ toast' = ""
  /\ called' = NoCall
  /\ UNCHANGED <<user, db, seq, owner, started, limit, prior, loading>>

\* a bug: setLoading(false) is at the end of the try block, not in finally
LoadThenWithoutFinally(n) ==
  /\ Resumes(n, "load")
  /\ LET o == ops[n] IN
     IF ~o.ok
     THEN /\ Settle(n, "Failed to load data")
          /\ UNCHANGED <<habits, sleepEntries, tasks, notes, loading>>
     ELSE CASE o.stage = "habits" ->
                 /\ NextFetch(n, "completions", o.data)
                 /\ UNCHANGED <<habits, sleepEntries, tasks, notes>>
            [] o.stage = "completions" ->
                 /\ habits' = HabitsWithCompletions(o.keep, o.data)
                 /\ NextFetch(n, "sleep", <<>>)
                 /\ UNCHANGED <<sleepEntries, tasks, notes>>
            [] o.stage = "sleep" ->
                 /\ sleepEntries' = MapSeq(o.data, SleepEntryOf)
                 /\ NextFetch(n, "tasks", <<>>)
                 /\ UNCHANGED <<habits, tasks, notes>>
            [] o.stage = "tasks" ->
                 /\ tasks' = MapSeq(o.data, TaskOf)
                 /\ NextFetch(n, "notes", <<>>)
                 /\ UNCHANGED <<habits, sleepEntries, notes>>
            [] o.stage = "notes" ->
                 /\ notes' = MapSeq(o.data, NoteOf)
                 /\ loading' = FALSE
                 /\ Settle(n, "")
                 /\ UNCHANGED <<habits, sleepEntries, tasks>>

\* fetchData after an await: the catch and finally blocks on an error, else
\* the setter of the fetched table and the next fetch
LoadThen(n) ==
  /\ Resumes(n, "load")
  /\ LET o == ops[n] IN
     IF ~o.ok
     THEN /\ Settle(n, "Failed to load data")
          /\ loading' = FALSE
          /\ UNCHANGED <<habits, sleepEntries, tasks, notes>>
     ELSE CASE o.stage = "habits" ->
                 /\ NextFetch(n, "completions", o.data)
                 /\ UNCHANGED <<habits, sleepEntries, tasks, notes>>
            [] o.stage = "completions" ->
                 /\ habits' = HabitsWithCompletions(o.keep, o.data)
                 /\ NextFetch(n, "sleep", <<>>)
                 /\ UNCHANGED <<sleepEntries, tasks, notes>>
            [] o.stage = "sleep" ->
                 /\ sleepEntries' = MapSeq(o.data, SleepEntryOf)
                 /\ NextFetch(n, "tasks", <<>>)
                 /\ UNCHANGED <<habits, tasks, notes>>
            [] o.stage = "tasks" ->
                 /\ tasks' = MapSeq(o.data, TaskOf)
                 /\ NextFetch(n, "notes", <<>>)
                 /\ UNCHANGED <<habits, sleepEntries, notes>>
            [] o.stage = "notes" ->
                 /\ notes' = MapSeq(o.data, NoteOf)
                 /\ loading' = FALSE
                 /\ Settle(n, "")
                 /\ UNCHANGED <<habits, sleepEntries, tasks>>

\* ------------------------------------------------------------ the mutations
\* the ids the presentation can pass: those of the records it shows, and one
\* that was never assigned
HabitIds == {habits[i].id : i \in 1..Len(habits)} \cup {0}
TaskIds == {tasks[i].id : i \in 1..Len(tasks)} \cup {0}
NoteIds == {notes[i].id : i \in 1..Len(notes)} \cup {0}

addHabit(name, color) ==
  IF user = NoUser THEN Return("addHabit", <<name, color>>)
  ELSE Await("addHabit", "", <<name, color>>)

addHabitThen(n) ==
  /\ Resumes(n, "addHabit")
  /\ IF ~ops[n].ok THEN Rejected(n, "Failed to add habit")
     ELSE LET data == ops[n].data IN
          /\ habits' = Append(habits, [id |-> data.id, name |-> data.name,
                                       color |-> data.color, createdAt |-> data.created_at,
                                       completedDays |-> <<>>])
          /\ Settle(n, "Habit added!")
          /\ UNCHANGED <<sleepEntries, tasks, notes, loading>>

updateHabit(id, updates) ==
  IF user = NoUser THEN Return("updateHabit", <<id, updates>>)
  ELSE Await("updateHabit", "", <<id, updates>>)

updateHabitThen(n) ==
  /\ Resumes(n, "updateHabit")
  /\ IF ~ops[n].ok THEN Rejected(n, "Failed to update habit")
     ELSE LET id == ops[n].arg[1]
              updates == ops[n].arg[2]
              patch(h) == IF h.id = id THEN Merge(h, updates) ELSE h
          IN /\ habits' = MapSeq(habits, patch)
             /\ Settle(n, "")
             /\ UNCHANGED <<sleepEntries, tasks, notes, loading>>

deleteHabit(id) ==
  IF user = NoUser THEN Return("deleteHabit", <<id>>)
  ELSE Await("deleteHabit", "", <<id>>)

deleteHabitThen(n) ==
  /\ Resumes(n, "deleteHabit")
  /\ IF ~ops[n].ok THEN Rejected(n, "Failed to delete habit")
     ELSE LET id == ops[n].arg[1]
              other(h) == h.id # id
          IN /\ habits' = FilterSeq(habits, other)
             /\ Settle(n, "Habit deleted")
             /\ UNCHANGED <<sleepEntries, tasks, notes, loading>>

\* habits.find(h => h.id === habitId) finds a habit
Found(habitId) == \E j \in 1..Len(habits) : habits[j].id = habitId

\* habit.completedDays.includes(date), for the first habit with that id
IsCompleted(habitId, date) ==
  LET i == CHOOSE j \in 1..Len(habits) :
             habits[j].id = habitId /\ \A k \in 1..(j - 1) : habits[k].id # habitId
  IN date \in Range(habits[i].completedDays)

\* a bug: the toggle patches local state before its write has returned
toggleHabitDayOptimistic(habitId, date) ==
  IF user = NoUser \/ ~Found(habitId) THEN Return("toggleHabitDay", <<habitId, date>>)
  ELSE LET patch(h) == IF h.id # habitId THEN h
                       ELSE [h EXCEPT !.completedDays = Append(@, date)]
       IN /\ Call("toggleHabitDay", <<habitId, date>>)
          /\ ops' = Put(started + 1, Request("toggleHabitDay", "insert", <<habitId, date>>))
          /\ habits' = MapSeq(habits, patch)
          /\ UNCHANGED <<user, sleepEntries, tasks, notes, loading>>

toggleHabitDay(habitId, date) ==
  IF user = NoUser \/ ~Found(habitId) THEN Return("toggleHabitDay", <<habitId, date>>)
  ELSE IF IsCompleted(habitId, date)
       THEN Await("toggleHabitDay", "delete", <<habitId, date>>)
       ELSE Await("toggleHabitDay", "insert", <<habitId, date>>)

\* a bug: the patch flips the date in prev instead of applying the closure's
\* isCompleted
toggleHabitDayThenFlips(n) ==
  /\ Resumes(n, "toggleHabitDay")
  /\ IF ~ops[n].ok THEN Rejected(n, "Failed to update")
     ELSE LET habitId == ops[n].arg[1]
              date == ops[n].arg[2]
              other(d) == d # date
              patch(h) ==
                IF h.id # habitId THEN h
                ELSE [h EXCEPT !.completedDays =
                        IF date \in Range(@) THEN FilterSeq(@, other) ELSE Append(@, date)]
          IN /\ habits' = MapSeq(habits, patch)
             /\ Settle(n, "")
             /\ UNCHANGED <<sleepEntries, tasks, notes, loading>>

toggleHabitDayThen(n) ==
  /\ Resumes(n, "toggleHabitDay")
  /\ IF ~ops[n].ok THEN Rejected(n, "Failed to update")
     ELSE LET habitId == ops[n].arg[1]
              date == ops[n].arg[2]
              isCompleted == ops[n].stage = "delete"
              other(d) == d # date
              patch(h) ==
                IF h.id # habitId THEN h
                ELSE [h EXCEPT !.completedDays =
                        IF isCompleted THEN FilterSeq(@, other) ELSE Append(@, date)]
          IN /\ habits' = MapSeq(habits, patch)
             /\ Settle(n, "")
             /\ UNCHANGED <<sleepEntries, tasks, notes, loading>>

\* a bug: the handler lacks `if (!user) return`
addSleepEntryUnguarded(date, hours) ==
  Await("addSleepEntry", "", <<date, hours>>)

addSleepEntry(date, hours) ==
  IF user = NoUser THEN Return("addSleepEntry", <<date, hours>>)
  ELSE Await("addSleepEntry", "", <<date, hours>>)

addSleepEntryThen(n) ==
  /\ Resumes(n, "addSleepEntry")
  /\ IF ~ops[n].ok THEN Rejected(n, "Failed to save sleep entry")
     ELSE LET date == ops[n].arg[1]
              hours == ops[n].arg[2]
              found == {i \in 1..Len(sleepEntries) : sleepEntries[i].date = date}
          IN /\ sleepEntries' =
                  IF found # {}
                  THEN LET existing == CHOOSE i \in found : \A j \in found : i <= j
                       IN [sleepEntries EXCEPT ![existing] = [date |-> date, hours |-> hours]]
                  ELSE Append(sleepEntries, [date |-> date, hours |-> hours])
             /\ Settle(n, "")
             /\ UNCHANGED <<habits, tasks, notes, loading>>

addTask(title, date, color) ==
  IF user = NoUser THEN Return("addTask", <<title, date, color>>)
  ELSE Await("addTask", "", <<title, date, color>>)

addTaskThen(n) ==
  /\ Resumes(n, "addTask")
  /\ IF ~ops[n].ok THEN Rejected(n, "Failed to add task")
     ELSE /\ tasks' = Append(tasks, TaskOf(ops[n].data))
          /\ Settle(n, "")
          /\ UNCHANGED <<habits, sleepEntries, notes, loading>>

updateTask(id, updates) ==
  IF user = NoUser THEN Return("updateTask", <<id, updates>>)
  ELSE Await("updateTask", "", <<id, updates>>)

\* a bug: the patch lacks the test on the id
updateTaskThenAll(n) ==
  /\ Resumes(n, "updateTask")
  /\ IF ~ops[n].ok THEN Rejected(n, "Failed to update task")
     ELSE LET updates == ops[n].arg[2]
              patch(t) == Merge(t, updates)
          IN /\ tasks' = MapSeq(tasks, patch)
             /\ Settle(n, "")
             /\ UNCHANGED <<habits, sleepEntries, notes, loading>>

updateTaskThen(n) ==
  /\ Resumes(n, "updateTask")
  /\ IF ~ops[n].ok THEN Rejected(n, "Failed to update task")
     ELSE LET id == ops[n].arg[1]
              updates == ops[n].arg[2]
              patch(t) == IF t.id = id THEN Merge(t, updates) ELSE t
          IN /\ tasks' = MapSeq(tasks, patch)
             /\ Settle(n, "")
             /\ UNCHANGED <<habits, sleepEntries, notes, loading>>

deleteTask(id) ==
  IF user = NoUser THEN Return("deleteTask", <<id>>)
  ELSE Await("deleteTask", "", <<id>>)

deleteTaskThen(n) ==
  /\ Resumes(n, "deleteTask")
  /\ IF ~ops[n].ok THEN Rejected(n, "Failed to delete task")
     ELSE LET id == ops[n].arg[1]
              other(t) == t.id # id
          IN /\ tasks' = FilterSeq(tasks, other)
             /\ Settle(n, "")
             /\ UNCHANGED <<habits, sleepEntries, notes, loading>>

addNote(content, date) ==
  IF user = NoUser THEN Return("addNote", <<content, date>>)
  ELSE Await("addNote", "", <<content, date>>)

\* a bug: the new note is put at the end, as the local-storage hook does
addNoteThenAppends(n) ==
  /\ Resumes(n, "addNote")
  /\ IF ~ops[n].ok THEN Rejected(n, "Failed to add note")
     ELSE /\ notes' = Append(notes, NoteOf(ops[n].data))
          /\ Settle(n, "")
          /\ UNCHANGED <<habits, sleepEntries, tasks, loading>>

addNoteThen(n) ==
  /\ Resumes(n, "addNote")
  /\ IF ~ops[n].ok THEN Rejected(n, "Failed to add note")
     ELSE /\ notes' = <<NoteOf(ops[n].data)>> \o notes
          /\ Settle(n, "")
          /\ UNCHANGED <<habits, sleepEntries, tasks, loading>>

updateNote(id, content) ==
  IF user = NoUser THEN Return("updateNote", <<id, content>>)
  ELSE Await("updateNote", "", <<id, content>>)

updateNoteThen(n) ==
  /\ Resumes(n, "updateNote")
  /\ IF ~ops[n].ok THEN Rejected(n, "Failed to update note")
     ELSE LET id == ops[n].arg[1]
              content == ops[n].arg[2]
              patch(r) == IF r.id = id THEN [r EXCEPT !.content = content] ELSE r
          IN /\ notes' = MapSeq(notes, patch)
             /\ Settle(n, "")
             /\ UNCHANGED <<habits, sleepEntries, tasks, loading>>

deleteNote(id) ==
  IF user = NoUser THEN Return("deleteNote", <<id>>)
  ELSE Await("deleteNote", "", <<id>>)

deleteNoteThen(n) ==
  /\ Resumes(n, "deleteNote")
  /\ IF ~ops[n].ok THEN Rejected(n, "Failed to delete note")
     ELSE LET id == ops[n].arg[1]
              other(r) == r.id # id
          IN /\ notes' = FilterSeq(notes, other)
             /\ Settle(n, "")
             /\ UNCHANGED <<habits, sleepEntries, tasks, loading>>

\* ------------------------------------------------------ the specifications
EmptyDb == [habits |-> {}, completions |-> {}, sleep |-> {}, tasks |-> {}, notes |-> {}]

\* rows of earlier sessions: a habit of u1 completed on day 1, a habit of u2,
\* a night, a task and a note of u1
SeededDb ==
  [habits |-> {[id |-> 1, user_id |-> "u1", name |-> "run", color |-> "red", created_at |-> 1],
               [id |-> 2, user_id |-> "u2", name |-> "read", color |-> "red", created_at |-> 2]},
   completions |-> {[habit_id |-> 1, user_id |-> "u1", date |-> 1]},
   sleep |-> {[user_id |-> "u1", date |-> 1, hours |-> 700]},
   tasks |-> {[id |-> 3, user_id |-> "u1", title |-> "buy", date |-> 1,
               completed |-> FALSE, color |-> Null, created_at |-> 3]},
   notes |-> {[id |-> 4, user_id |-> "u1", content |-> "hi", date |-> 1, created_at |-> 4]}]
SeededOwner == <<"u1", "u2", "u1", "u1">>

\* the hook after its first render, with the effect's first fetchData() under
\* owner u, against store d, cut off at lim invocations
Mounted(u, d, lim) ==
  /\ user = u
  /\ db = d
  /\ seq = IF d = EmptyDb THEN 0 ELSE 4
  /\ owner = IF d = EmptyDb THEN <<>> ELSE SeededOwner
  /\ habits = <<>>
  /\ sleepEntries = <<>>
  /\ tasks = <<>>
  /\ notes = <<>>
  /\ loading = (u # NoUser)
  /\ started = 1
  /\ limit = lim
  /\ ops = IF u = NoUser THEN <<>>
           ELSE [k \in {1} |->
                   NewOp("load", "habits", <<>>, u,
                         [habits |-> <<>>, sleepEntries |-> <<>>, tasks |-> <<>>,
                          notes |-> <<>>, db |-> d], TRUE, NoPrior)]
  /\ called = <<"fetchData", <<>>>>
  /\ toast = ""
  /\ prior = NoPrior

Init == \E u \in {"u1", NoUser} : Mounted(u, SeededDb, MaxOps)

Next ==
  \/ \E u \in Users \cup {NoUser} : AuthChange(u)
  \/ \E n \in InFlight : Serve(n)
  \/ \E n \in InFlight : Fail(n)
  \/ \E n \in InFlight : LoadThen(n)
  \/ \E a \in HabitArgs : addHabit(a[1], a[2])
  \/ \E n \in InFlight : addHabitThen(n)
  \/ \E id \in HabitIds, u \in HabitUpdates : updateHabit(id, u)
  \/ \E n \in InFlight : updateHabitThen(n)
  \/ \E id \in HabitIds : deleteHabit(id)
  \/ \E n \in InFlight : deleteHabitThen(n)
  \/ \E id \in HabitIds, d \in Dates : toggleHabitDay(id, d)
  \/ \E n \in InFlight : toggleHabitDayThen(n)
  \/ \E a \in SleepArgs : addSleepEntry(a[1], a[2])
  \/ \E n \in InFlight : addSleepEntryThen(n)
  \/ \E a \in TaskArgs : addTask(a[1], a[2], a[3])
  \/ \E n \in InFlight : addTaskThen(n)
  \/ \E id \in TaskIds, u \in TaskUpdates : updateTask(id, u)
  \/ \E n \in InFlight : updateTaskThen(n)
  \/ \E id \in TaskIds : deleteTask(id)
  \/ \E n \in InFlight : deleteTaskThen(n)
  \/ \E a \in NoteArgs : addNote(a[1], a[2])
  \/ \E n \in InFlight : addNoteThen(n)
  \/ \E id \in NoteIds, c \in NoteUpdates : updateNote(id, c)
  \/ \E n \in InFlight : updateNoteThen(n)
  \/ \E id \in NoteIds : deleteNote(id)
  \/ \E n \in InFlight : deleteNoteThen(n)

Spec == Init /\ [][Next]_vars

\* Toggles and reloads of one account: the owner's session is refreshed (the
\* effect loads again) while the days of the loaded habits are toggled.
InitToggle == Mounted("u1", SeededDb, ToggleOps)

NextToggle ==
  \/ AuthChange("u1")
  \/ \E n \in InFlight : Serve(n)
  \/ \E n \in InFlight : Fail(n)
  \/ \E n \in InFlight : LoadThen(n)
  \/ \E id \in HabitIds \ {0} : toggleHabitDay(id, 1)
  \/ \E n \in InFlight : toggleHabitDayThen(n)

SpecToggle == InitToggle /\ [][NextToggle]_vars

\* Nights entered by one account, after or during its first load.
InitSleep == Mounted("u1", SeededDb, SleepOps)

NextSleep ==
  \/ \E n \in InFlight : Serve(n)
  \/ \E n \in InFlight : Fail(n)
  \/ \E n \in InFlight : LoadThen(n)
  \/ \E d \in Dates, h \in Hours : addSleepEntry(d, h)
  \/ \E n \in InFlight : addSleepEntryThen(n)

SpecSleep == InitSleep /\ [][NextSleep]_vars

\* -------------------------------------------------------------- properties
Mutations == {"addHabit", "updateHabit", "deleteHabit", "toggleHabitDay",
              "addSleepEntry", "addTask", "updateTask", "deleteTask",
              "addNote", "updateNote", "deleteNote"}

\* the toast.error notices of the mutations
MutationErrors == {"Failed to add habit", "Failed to update habit",
                   "Failed to delete habit", "Failed to update",
                   "Failed to save sleep entry", "Failed to add task",
                   "Failed to update task", "Failed to delete task",
                   "Failed to add note", "Failed to update note",
                   "Failed to delete note"}

\* this step invokes a handler
Invokes == started' # started
\* this step is the continuation of invocation n after a response
Continues(n) ==
  /\ n \in DOMAIN ops
  /\ ops[n].pc = "replied"
  /\ (n \notin DOMAIN ops' \/ ops'[n] # ops[n])
\* this step ends invocation n
Ends(n) == n \in DOMAIN ops /\ n \notin DOMAIN ops'
\* invocation n ran with no other invocation between its call and this step
RanAlone(n) == ops[n].alone /\ DOMAIN ops = {n} /\ started = n

NoDuplicates(s) == \A i, j \in 1..Len(s) : i # j => s[i] # s[j]

\* C1: in every reachable state, the completedDays of every local habit holds
\* no date twice.
C1_NoDuplicateDates ==
  \A i \in 1..Len(habits) : NoDuplicates(habits[i].completedDays)

\* C3: the continuation of a mutation whose remote write returned an error
\* leaves the four local collections as they were, produces one failure
\* notice, ends the invocation after its single request and sends nothing.
C3_FailedMutation ==
  [][\A n \in DOMAIN ops :
       (Continues(n) /\ ops[n].kind \in Mutations /\ ~ops[n].ok) =>
         /\ UNCHANGED local
         /\ toast' \in MutationErrors
         /\ ops[n].reqs = 1
         /\ DOMAIN ops' = DOMAIN ops \ {n}
         /\ \A k \in DOMAIN ops' : ops'[k] = ops[k]
         /\ db' = db]_vars

\* a mutation's remote write has failed and its handler has returned
C3_Witness ==
  /\ toast \in MutationErrors
  /\ prior.kind \in Mutations
  /\ ~prior.ok

\* C4: a load of which a fetch fails, and during which nothing else runs, ends
\* with the four local collections as they were when it began and with one
\* failure notice.
C4_FailedLoadRestores ==
  [][\A n \in DOMAIN ops :
       (Ends(n) /\ ops[n].kind = "load" /\ ~ops[n].ok /\ RanAlone(n)) =>
         /\ habits' = ops[n].snap.habits
         /\ sleepEntries' = ops[n].snap.sleepEntries
         /\ tasks' = ops[n].snap.tasks
         /\ notes' = ops[n].snap.notes
         /\ toast' = "Failed to load data"]_vars

\* a handler invocation sends exactly one request
SendsOne ==
  \E n \in DOMAIN ops' \ DOMAIN ops :
    /\ DOMAIN ops' = DOMAIN ops \cup {n}
    /\ ops'[n].pc = "sent"
    /\ ops'[n].reqs = 1
\* a handler invocation sends nothing
SendsNone == ops' = ops
\* a suspended mutation sends no second request
NeverResends ==
  \A n \in DOMAIN ops \cap DOMAIN ops' :
    ops[n].kind \in Mutations =>
      /\ ops'[n].reqs = 1
      /\ (ops'[n].pc = "sent" => ops[n].pc = "sent")
\* local state changes only in a step of a load, or in the continuation of a
\* mutation whose remote write has succeeded
PatchesAfterSuccess ==
  local' # local =>
    \/ Invokes /\ called'[1] = "fetchData"
    \/ \E n \in DOMAIN ops :
         /\ Continues(n)
         /\ ops[n].ok
         /\ ops[n].kind = "load" \/ Ends(n)

\* C5 (as claimed): every invocation of a mutation with an owner present sends
\* exactly one request, and local state is patched only after it succeeded.
C5_OneRoundTripThenPatch ==
  [][/\ (Invokes /\ called'[1] \in Mutations /\ user # NoUser) => SendsOne
     /\ NeverResends
     /\ PatchesAfterSuccess]_vars

\* C5 (amended): as claimed, except that toggleHabitDay for an id that no local
\* habit has returns without any request.
C5_OneRoundTripUnlessUnknownHabit ==
  [][/\ (Invokes /\ called'[1] \in Mutations /\ user # NoUser) =>
          IF called'[1] = "toggleHabitDay" /\ ~Found(called'[2][1])
          THEN SendsNone /\ UNCHANGED local
          ELSE SendsOne /\ UNCHANGED local
     /\ NeverResends
     /\ PatchesAfterSuccess]_vars

\* a mutation that ran alone, with an owner, has patched local state after its
\* one round trip
C5_Witness ==
  /\ user # NoUser
  /\ prior.kind \in Mutations
  /\ prior.ok
  /\ prior.snap.habits # habits

\* C6: with no owner, the invocation of any mutation sends no request, changes
\* no local collection and produces no notice.
C6_NoOwnerNoOp ==
  [][(Invokes /\ called'[1] \in Mutations /\ user = NoUser) =>
       /\ SendsNone
       /\ UNCHANGED local
       /\ UNCHANGED <<db, loading, user>>
       /\ toast' = ""]_vars

\* a mutation was invoked with no owner while local state was not empty
C6_Witness ==
  /\ user = NoUser
  /\ called[1] \in Mutations
  /\ habits # <<>>

\* C7: a load with no owner empties the four local collections and sends no
\* request, at the first render and at every later run.
C7_LoadWithoutOwner ==
  /\ (user = NoUser => habits = <<>> /\ sleepEntries = <<>> /\ tasks = <<>>
                       /\ notes = <<>> /\ ops = <<>>)
  /\ [][(Invokes /\ called'[1] = "fetchData" /\ user' = NoUser) =>
          /\ habits' = <<>>
          /\ sleepEntries' = <<>>
          /\ tasks' = <<>>
          /\ notes' = <<>>
          /\ SendsNone]_vars

\* a load has just run with no owner and has emptied the habits that an
\* invocation still in flight had found
C7_Witness ==
  /\ user = NoUser
  /\ called[1] = "fetchData"
  /\ started > 1
  /\ habits = <<>>
  /\ \E n \in DOMAIN ops : ops[n].snap.habits # <<>>

\* C8: once nothing is in flight, the local collections hold only records of
\* the current owner, and nothing when there is no owner.
C8_MirrorOfCurrentOwner ==
  ops = <<>> =>
    IF user = NoUser
    THEN habits = <<>> /\ sleepEntries = <<>> /\ tasks = <<>> /\ notes = <<>>
    ELSE /\ \A i \in 1..Len(habits) : owner[habits[i].id] = user
         /\ \A i \in 1..Len(tasks) : owner[tasks[i].id] = user
         /\ \A i \in 1..Len(notes) : owner[notes[i].id] = user
         /\ \A i \in 1..Len(sleepEntries) :
              \E r \in db.sleep : r.user_id = user /\ r.date = sleepEntries[i].date

\* C10: when deleteHabit(id) has succeeded, the store holds no habit row with
\* that id and no completion row of it, and no local habit has that id.
C10_DeletedEverywhere ==
  [][\A n \in DOMAIN ops :
       (Ends(n) /\ ops[n].kind = "deleteHabit" /\ ops[n].ok) =>
         LET id == ops[n].arg[1] IN
         /\ \A r \in db'.habits : r.id # id
         /\ \A c \in db'.completions : c.habit_id # id
         /\ \A i \in 1..Len(habits') : habits'[i].id # id]_vars

\* the completion dates local state shows for habit h, and those the store
\* holds for it
LocalDates(hs, h) == UNION {Range(hs[i].completedDays) : i \in {j \in 1..Len(hs) : hs[j].id = h}}
StoreDates(d, h) == {c.date : c \in {x \in d.completions : x.habit_id = h}}

\* invocation n, which succeeded and ran alone, came right after a successful
\* invocation of the same handler that ran alone too
SecondOfTwo(n, kind) ==
  /\ Ends(n)
  /\ RanAlone(n)
  /\ ops[n].kind = kind
  /\ ops[n].ok
  /\ ops[n].after.kind = kind
  /\ ops[n].after.ok

\* C2: two successful toggleHabitDay(h, d), the second called after the first
\* has resolved and nothing else running, leave the completion dates of h as
\* they were before the first, in local state and in the store.
C2_ToggleTwiceRestores ==
  [][\A n \in DOMAIN ops :
       (SecondOfTwo(n, "toggleHabitDay") /\ ops[n].after.arg = ops[n].arg) =>
         LET h == ops[n].arg[1]
             before == ops[n].after.snap
         IN /\ LocalDates(habits', h) = LocalDates(before.habits, h)
            /\ StoreDates(db', h) = StoreDates(before.db, h)]_vars

\* the rows the store holds for the nights of owner u on date d
Nights(d, u, date) == {r \in d.sleep : r.user_id = u /\ r.date = date}
\* the places of date in the local sleep entries
Entries(es, date) == {i \in 1..Len(es) : es[i].date = date}

\* after addSleepEntry(d, h1) and then addSleepEntry(d, h2), both successful
\* and nothing else running: one row for d in the store, with hours stored,
\* one local entry for d with hours h2, the other dates as before the first
TwoNights(n, stored) ==
  LET date == ops[n].arg[1]
      before == ops[n].after.snap
      other(e) == e.date # date
  IN /\ \E r \in db'.sleep : Nights(db', ops[n].uid, date) = {r} /\ r.hours = stored
     /\ \E i \in 1..Len(sleepEntries') :
          Entries(sleepEntries', date) = {i} /\ sleepEntries'[i].hours = ops[n].arg[2]
     /\ {r \in db'.sleep : r.date # date} = {r \in before.db.sleep : r.date # date}
     /\ SelectSeq(sleepEntries', other) = SelectSeq(before.sleepEntries, other)

\* C9: addSleepEntry(d, h1) and then, once it has resolved, addSleepEntry(d, h2),
\* both successful, leave one row for d with hours h2 in the store and one
\* entry for d with hours h2 in local state, the other dates unchanged.
C9_SecondNightWins ==
  [][\A n \in DOMAIN ops :
       (SecondOfTwo(n, "addSleepEntry") /\ ops[n].after.arg[1] = ops[n].arg[1]) =>
         TwoNights(n, ops[n].arg[2])]_vars

\* ------------------------------------------------------------ habit updates
\* invocations in one behaviour of SpecHabit
HabitOps == 3

\* Partial<Omit<Habit, 'id' | 'createdAt'>>: name, color and completedDays,
\* each optional
HabitPatches == HabitUpdates \cup {[name |-> "read", completedDays |-> <<2>>]}

\* Updates of the habits of one account, after or during its first load.
InitHabit == Mounted("u1", SeededDb, HabitOps)

NextHabit ==
  \/ \E n \in InFlight : Serve(n)
  \/ \E n \in InFlight : Fail(n)
  \/ \E n \in InFlight : LoadThen(n)
  \/ \E id \in HabitIds, u \in HabitPatches : updateHabit(id, u)
  \/ \E n \in InFlight : updateHabitThen(n)

SpecHabit == InitHabit /\ [][NextHabit]_vars

\* this step is the store serving the request of invocation n
Served(n) ==
  /\ n \in DOMAIN ops /\ n \in DOMAIN ops'
  /\ ops[n].pc = "sent"
  /\ ops'[n].pc = "replied"

\* in this step the store changes nothing but the name and color of the habit
\* rows with this id and owner
StoreKeepsAllButNameColor(id, uid) ==
  /\ db'.completions = db.completions
  /\ db'.sleep = db.sleep /\ db'.tasks = db.tasks /\ db'.notes = db.notes
  /\ {r.id : r \in db'.habits} = {r.id : r \in db.habits}
  /\ \A r \in db.habits : \E q \in db'.habits :
       /\ q.id = r.id
       /\ q.created_at = r.created_at
       /\ q.user_id = r.user_id
       /\ (r.id # id \/ r.user_id # uid) => q = r

\* in this step local state changes nothing but the name and color of the
\* habits with this id
LocalKeepsAllButNameColor(id) ==
  /\ UNCHANGED <<sleepEntries, tasks, notes>>
  /\ Len(habits') = Len(habits)
  /\ \A i \in 1..Len(habits) :
       /\ habits'[i].id = habits[i].id
       /\ habits'[i].completedDays = habits[i].completedDays
       /\ habits'[i].createdAt = habits[i].createdAt
       /\ habits[i].id # id => habits'[i] = habits[i]

\* C11: the request of updateHabit(id, updates) and the local patch after it
\* change only the name and color of the habit id of the caller: completion
\* dates and creation time stay, in the store and in local state, and every
\* other habit stays as it was.
C11_UpdateKeepsCompletions ==
  [][\A n \in DOMAIN ops :
       ops[n].kind = "updateHabit" =>
         /\ Served(n) => StoreKeepsAllButNameColor(ops[n].arg[1], ops[n].uid)
         /\ Continues(n) => db' = db /\ LocalKeepsAllButNameColor(ops[n].arg[1])]_vars

\* --------------------------------------------------------------- two owners
\* invocations of the hook in one behaviour of SpecOwners
OwnerOps == 2

\* a request as the store receives it: the session it comes with and its payload
StoreRequest(kind, stage, auth, uid, arg) ==
  [kind |-> kind, stage |-> stage, auth |-> auth, uid |-> uid, arg |-> arg]

\* the ids of the habit rows, whoever owns them
StoredHabitIds == {r.id : r \in db.habits}

\* the writes a client signed in as b can send about completions, habits and
\* nights: any habit id and any user_id, the policies and constraints decide
WritesOf(b) ==
  {StoreRequest("toggleHabitDay", st, b, u, <<h, d>>) :
     st \in {"insert", "delete"}, u \in Users, h \in StoredHabitIds, d \in Dates}
  \cup {StoreRequest("deleteHabit", "", b, u, <<h>>) : u \in Users, h \in StoredHabitIds}
  \cup {StoreRequest("addSleepEntry", "", b, u, <<d, 700>>) : u \in Users, d \in Dates}

\* the requests the hook of owner a sends about a's own habits and nights
OwnRequests(a) ==
  {o \in WritesOf(a) :
     /\ o.uid = a
     /\ o.kind \in {"toggleHabitDay", "deleteHabit"} =>
          \E r \in db.habits : r.id = o.arg[1] /\ r.user_id = a}
  \cup {StoreRequest("load", st, a, a, <<>>) :
          st \in {"habits", "completions", "sleep", "tasks", "notes"}}

\* another client, signed in as b, has a request served by the store
OtherOwner(b) ==
  /\ \E o \in WritesOf(b) : \E r \in Outcomes(o) :
       /\ r.ok
       /\ r.db # db
       /\ db' = r.db
       /\ seq' = r.seq
  /\ UNCHANGED <<user, habits, sleepEntries, tasks, notes, loading, ops, started,
                 limit, called, toast, owner, prior>>

\* The hook of u1 toggling its habits while a client of u2 uses the store.
InitOwners == Mounted("u1", SeededDb, OwnerOps)

NextOwners ==
  \/ \E n \in InFlight : Serve(n)
  \/ \E n \in InFlight : Fail(n)
  \/ \E n \in InFlight : LoadThen(n)
  \/ \E id \in HabitIds, d \in Dates : toggleHabitDay(id, d)
  \/ \E n \in InFlight : toggleHabitDayThen(n)
  \/ OtherOwner("u2")

SpecOwners == InitOwners /\ [][NextOwners]_vars

\* what the client sees of the answers the store can give to a request
Answers(o) == {<<r.ok, r.data>> : r \in Outcomes(o)}

\* this step is a store operation of a client other than the hook
OtherOwnerActs == db' # db /\ ops' = ops

\* C12: no store operation of owner u2 changes the answer to any request of
\* owner u1 about its own records (the success or failure of its writes, the
\* rows of its loads).
C12_NoCrossUserInteraction ==
  [][OtherOwnerActs =>
       \A o \in OwnRequests("u1") : Answers(o)' = Answers(o)]_vars

\* ------------------------------------------------------ row-level security
\* invocations of the hook in one behaviour of SpecPolicies
PolicyOps == 2

Tables == {"habits", "completions", "sleep", "tasks", "notes"}
Commands == {"select", "insert", "update", "delete"}

\* CREATE POLICY ... ON public.<table> FOR <command>: the policies of the schema
Policies ==
  {<<"habits", c>> : c \in {"select", "insert", "update", "delete"}}
  \cup {<<"completions", c>> : c \in {"select", "insert", "delete"}}
  \cup {<<"sleep", c>> : c \in {"select", "insert", "update", "delete"}}
  \cup {<<"tasks", c>> : c \in {"select", "insert", "update", "delete"}}
  \cup {<<"notes", c>> : c \in {"select", "insert", "update", "delete"}}

\* a bug: a policy written USING (true)
PermitsAnyOwner(table, command, auth, row) == <<table, command>> \in Policies

\* ENABLE ROW LEVEL SECURITY: a command reaches a row only through a policy of
\* its table for that command, and each policy is auth.uid() = user_id
Permits(table, command, auth, row) ==
  /\ <<table, command>> \in Policies
  /\ auth = row.user_id

\* the rows a command on a table is about: the rows offered by an insert (of
\* any user_id), the rows of the table otherwise
Candidates(table, command) ==
  IF command = "insert" THEN {[user_id |-> u] : u \in Users} ELSE db[table]

\* the rows among them the policies let the session reach
Reached(table, command, auth) ==
  {r \in Candidates(table, command) : Permits(table, command, auth, r)}

\* a client signed in as auth runs a command on a table
Command(auth, table, command) ==
  /\ called' = <<"command", <<auth, table, command, Reached(table, command, auth)>>>>
  /\ UNCHANGED <<user, db, seq, habits, sleepEntries, tasks, notes, loading, ops,
                 started, limit, toast, owner, prior>>

\* The hook of u1 toggling its habits, and commands of any session on any table.
InitPolicies == Mounted("u1", SeededDb, PolicyOps)

NextPolicies ==
  \/ \E n \in InFlight : Serve(n)
  \/ \E n \in InFlight : Fail(n)
  \/ \E n \in InFlight : LoadThen(n)
  \/ \E id \in HabitIds, d \in Dates : toggleHabitDay(id, d)
  \/ \E n \in InFlight : toggleHabitDayThen(n)
  \/ \E a \in Users, t \in Tables, c \in Commands : Command(a, t, c)

SpecPolicies == InitPolicies /\ [][NextPolicies]_vars

\* this step is a command of a client on a table
Commanded == called'[1] = "command" /\ db' = db /\ ops' = ops /\ started' = started

\* the candidate rows of a command that the session owns
OwnRows(table, command, auth) ==
  {r \in Candidates(table, command) : r.user_id = auth}

\* C13 (as claimed): on each of the five tables each of the four commands
\* reaches exactly the rows whose user_id is the caller's identity.
C13_FourPoliciesPerTable ==
  [][Commanded =>
       LET q == called'[2] IN q[4] = OwnRows(q[2], q[3], q[1])]_vars

\* C13 (amended): as claimed, except that habit_completions has no update
\* policy, so that an update of it reaches no row.
C13_PoliciesPerTable ==
  [][Commanded =>
       LET q == called'[2] IN
       q[4] = IF q[2] = "completions" /\ q[3] = "update" THEN {}
              ELSE OwnRows(q[2], q[3], q[1])]_vars

\* an owner has run an update or a delete on a table that holds rows of both
\* owners, and it reached rows
C13_Witness ==
  /\ called[1] = "command"
  /\ called[2][3] \in {"update", "delete"}
  /\ called[2][4] # {}
  /\ \E r \in db[called[2][2]] : r.user_id # called[2][1]

\* ---------------------------------------------------------- derived metrics
\* habits and sleep entries in SpecStats
MaxHabits == 3
MaxEntries == 3

\* format(new Date(), 'yyyy-MM-dd'): the day of the render, as a day number
Today == 40
Todays == {Today, Today + 1}
\* the days the habits of SpecStats can be completed on
StatDays == {Today - 29, Today - 2, Today - 1, Today, Today + 1}
\* hours in tenths of an hour: 6.5, 7.0, 7.1 and 8.0
StatHours == {65, 70, 71, 80}
\* the date of the i-th sleep entry, the first long before the others
StatNight(i) == IF i = 1 THEN Today - 400 ELSE Today + 2 - i

\* the completedDays a habit can have: none, one or two of these days
DayLists ==
  {s \in UNION {[1..k -> StatDays] : k \in 0..2} :
     \A i, j \in 1..Len(s) : i < j => s[i] < s[j]}

StatHabit(i, days) ==
  [id |-> i, name |-> "run", color |-> "red", createdAt |-> i, completedDays |-> days]

\* the lists of k habits and of k sleep entries of SpecStats
StatHabits(k) == {[i \in 1..k |-> StatHabit(i, f[i])] : f \in [1..k -> DayLists]}
StatEntries(k) ==
  {[i \in 1..k |-> [date |-> StatNight(i), hours |-> f[i]]] : f \in [1..k -> StatHours]}

\* Math.round(num / den) for num >= 0 and den > 0: halves go up
MathRound(num, den) == (2 * num + den) \div (2 * den)

\* habits.filter((h) => h.completedDays.includes(dateStr)).length
CompletedOn(hs, dateStr) ==
  Cardinality({i \in 1..Len(hs) : dateStr \in Range(hs[i].completedDays)})

\* a bug: the percentage is truncated instead of rounded
completionRateTruncated(hs, today) ==
  IF Len(hs) > 0 THEN (CompletedOn(hs, today) * 100) \div Len(hs) ELSE 0

\* Math.round((completedToday / totalHabits) * 100), 0 without habits
completionRate(hs, today) ==
  LET totalHabits == Len(hs)
      completedToday == CompletedOn(hs, today)
  IN IF totalHabits > 0 THEN MathRound(completedToday * 100, totalHabits) ELSE 0

\* the loop of calculateStreak, from date backward
RECURSIVE StreakFrom(_, _)
StreakFrom(hs, date) ==
  LET anyCompleted == \E i \in 1..Len(hs) : date \in Range(hs[i].completedDays)
  IN IF ~anyCompleted THEN 0 ELSE 1 + StreakFrom(hs, date - 1)

\* a bug: a day without completion is skipped when it is today
calculateStreakFromYesterday(hs, today) ==
  IF Len(hs) = 0 THEN 0
  ELSE IF CompletedOn(hs, today) = 0 THEN StreakFrom(hs, today - 1)
       ELSE StreakFrom(hs, today)

calculateStreak(hs, today) ==
  IF Len(hs) = 0 THEN 0 ELSE StreakFrom(hs, today)

\* sleepEntries.reduce((sum, e) => sum + e.hours, 0), in tenths
RECURSIVE SumHours(_)
SumHours(es) == IF es = <<>> THEN 0 ELSE Head(es).hours + SumHours(Tail(es))

\* (sum / n).toFixed(1), in tenths: the nearest tenth; for a mean halfway
\* between two tenths, the one its binary floating-point value is nearer to,
\* which is either
ToFixed1(sum, n) ==
  IF (2 * sum) % (2 * n) = n THEN {sum \div n, sum \div n + 1}
  ELSE {(2 * sum + n) \div (2 * n)}

Shown(tenths) == [text |-> "number", tenths |-> tenths]
Placeholder == [text |-> "placeholder", tenths |-> 0]

\* a bug: the mean of the entries of the last seven days only
avgSleepWindowed(es, today) ==
  LET recent(e) == e.date > today - 7
      last == SelectSeq(es, recent)
  IN IF Len(last) > 0 THEN {Shown(t) : t \in ToFixed1(SumHours(last), Len(last))}
     ELSE {Placeholder}

\* avgSleep: the texts it can be
avgSleep(es, today) ==
  IF Len(es) > 0 THEN {Shown(t) : t \in ToFixed1(SumHours(es), Len(es))}
  ELSE {Placeholder}

\* Array.from({ length: 30 }, ...): the length of the window of habitStats
Last30 == 30

\* a bug: the window has one day too many
habitStatsOffByOne(hs, today) ==
  LET last30Days == {today - i : i \in 0..Last30}
      inWindow(d) == d \in last30Days
      stat(habit) ==
        LET last30Count == Len(SelectSeq(habit.completedDays, inWindow))
        IN [name |-> habit.name, color |-> habit.color,
            totalDays |-> Len(habit.completedDays), last30Count |-> last30Count,
            completionRate |-> MathRound(last30Count * 100, Last30)]
  IN [i \in 1..Len(hs) |-> stat(hs[i])]

habitStats(hs, today) ==
  LET last30Days == {today - i : i \in 0..(Last30 - 1)}
      inWindow(d) == d \in last30Days
      stat(habit) ==
        LET last30Count == Len(SelectSeq(habit.completedDays, inWindow))
        IN [name |-> habit.name, color |-> habit.color,
            totalDays |-> Len(habit.completedDays), last30Count |-> last30Count,
            completionRate |-> MathRound(last30Count * 100, Last30)]
  IN [i \in 1..Len(hs) |-> stat(hs[i])]

\* weeklyData: the percentage of each of the seven days ending today
weeklyData(hs, today) ==
  [i \in 1..7 |-> completionRate(hs, today - (7 - i))]

\* the Dashboard renders on day today
Dashboard(today) ==
  /\ \E avg \in avgSleep(sleepEntries, today) :
       called' = <<"Dashboard", [today |-> today,
                                 completionRate |-> completionRate(habits, today),
                                 streak |-> calculateStreak(habits, today),
                                 avgSleep |-> avg]>>
  /\ UNCHANGED <<user, db, seq, habits, sleepEntries, tasks, notes, loading, ops,
                 started, limit, toast, owner, prior>>

\* the Analytics page renders on day today
Analytics(today) ==
  /\ \E avg \in avgSleep(sleepEntries, today) :
       called' = <<"Analytics", [today |-> today,
                                 weeklyData |-> weeklyData(habits, today),
                                 habitStats |-> habitStats(habits, today),
                                 avgSleep |-> avg]>>
  /\ UNCHANGED <<user, db, seq, habits, sleepEntries, tasks, notes, loading, ops,
                 started, limit, toast, owner, prior>>

\* The pages over the habits and sleep entries of the local hook.
InitStats ==
  /\ \/ \E k \in 0..MaxHabits : habits \in StatHabits(k) /\ sleepEntries = <<>>
     \/ \E k \in 0..MaxEntries : habits = <<>> /\ sleepEntries \in StatEntries(k)
  /\ user = NoUser
  /\ db = EmptyDb
  /\ seq = 0
  /\ owner = <<>>
  /\ tasks = <<>>
  /\ notes = <<>>
  /\ loading = FALSE
  /\ started = 0
  /\ limit = 0
  /\ ops = <<>>
  /\ called = NoCall
  /\ toast = ""
  /\ prior = NoPrior

NextStats ==
  \/ \E today \in Todays : Dashboard(today)
  \/ \E today \in Todays : Analytics(today)

SpecStats == InitStats /\ [][NextStats]_vars

\* the days on which at least one habit has a completion
DaysDone == UNION {Range(habits[i].completedDays) : i \in 1..Len(habits)}

\* C14: the streak shown is the number of consecutive days, backward from
\* today, that each have a completion of some habit: 0 when today has none,
\* 0 without habits, 3 when the completions are on today and the two days
\* before it only.
C14_StreakCountsBackFromToday ==
  called[1] = "Dashboard" =>
    LET today == called[2].today
        streak == called[2].streak
    IN /\ streak >= 0
       /\ \A k \in 0..(streak - 1) : today - k \in DaysDone
       /\ today - streak \notin DaysDone
       /\ today \notin DaysDone => streak = 0
       /\ habits = <<>> => streak = 0
       /\ DaysDone = {today - 2, today - 1, today} => streak = 3

\* a streak of 3 is shown for completions on today and the two days before
C14_Witness ==
  /\ called[1] = "Dashboard"
  /\ called[2].streak = 3
  /\ DaysDone = {called[2].today - k : k \in 0..2}

\* C15: the completion rate shown for today is the number of habits completed
\* today times 100 over the number of habits, rounded to the nearest integer:
\* 0 without habits, 67 for 2 of 3; the last day of weeklyData shows the same.
C15_CompletionRateOfToday ==
  /\ called[1] = "Dashboard" =>
       LET n == Len(habits)
           c == Cardinality({i \in 1..n : called[2].today \in Range(habits[i].completedDays)})
           rate == called[2].completionRate
       IN /\ n = 0 => rate = 0
          /\ n > 0 => /\ 2 * (rate * n - 100 * c) <= n
                      /\ 2 * (100 * c - rate * n) <= n
          /\ (n = 3 /\ c = 2) => rate = 67
  /\ called[1] = "Analytics" =>
       LET n == Len(habits)
           c == Cardinality({i \in 1..n : called[2].today \in Range(habits[i].completedDays)})
           rate == called[2].weeklyData[7]
       IN /\ n = 0 => rate = 0
          /\ n > 0 => /\ 2 * (rate * n - 100 * c) <= n
                      /\ 2 * (100 * c - rate * n) <= n

\* the Dashboard shows 67 for three habits of which two are completed today
C15_Witness ==
  /\ called[1] = "Dashboard"
  /\ Len(habits) = 3
  /\ called[2].completionRate = 67

\* C16: the average sleep both pages show is the mean of the hours of all
\* local sleep entries, whatever their dates, to the nearest tenth, and the
\* placeholder without entries; 7.2 for the entries 6.5, 7.0 and 8.0.
C16_AverageSleep ==
  called[1] \in {"Dashboard", "Analytics"} =>
    LET n == Len(sleepEntries)
        sum == SumHours(sleepEntries)
        avg == called[2].avgSleep
        hours == [i \in 1..n |-> sleepEntries[i].hours]
    IN /\ n = 0 <=> avg.text = "placeholder"
       /\ n > 0 => /\ 2 * (avg.tenths * n - sum) <= n
                   /\ 2 * (sum - avg.tenths * n) <= n
       /\ hours = <<65, 70, 80>> => avg.tenths = 72

\* 7.2 is shown for the entries 6.5, 7.0 and 8.0, the first of them of a night
\* long ago
C16_Witness ==
  /\ called[1] \in {"Dashboard", "Analytics"}
  /\ Len(sleepEntries) = 3
  /\ sleepEntries[1].date < called[2].today - 30
  /\ <<sleepEntries[1].hours, sleepEntries[2].hours, sleepEntries[3].hours>> = <<65, 70, 80>>
  /\ called[2].avgSleep = Shown(72)

\* C17: the 30-day completion rate of a habit is the number of its completion
\* dates among today and the 29 days before it, times 100 over 30, rounded to
\* an integer; dates outside these 30 days do not count.
C17_ThirtyDayRate ==
  called[1] = "Analytics" =>
    \A i \in 1..Len(habits) :
      LET today == called[2].today
          count == Cardinality({d \in Range(habits[i].completedDays) :
                                  today - 29 <= d /\ d <= today})
          stat == called[2].habitStats[i]
      IN /\ stat.last30Count = count
         /\ 2 * (stat.completionRate * 30 - 100 * count) <= 30
         /\ 2 * (100 * count - stat.completionRate * 30) <= 30

\* a habit completed today and 30 days ago is shown with one completion in the
\* window, at 3 percent
C17_Witness ==
  /\ called[1] = "Analytics"
  /\ \E i \in 1..Len(habits) :
       /\ Range(habits[i].completedDays) = {called[2].today - 30, called[2].today}
       /\ called[2].habitStats[i].last30Count = 1
       /\ called[2].habitStats[i].completionRate = 3

\* C18: in every reachable state the local notes are in newest-first order of
\* creation: no note comes before a note the store created later.
C18_NotesNewestFirst ==
  \A i, j \in 1..Len(notes) : i < j => notes[i].createdAt >= notes[j].createdAt

\* list after is list before with one record more, at the front or at the end,
\* the records of before in their order
GrowsAtFront(before, after) ==
  /\ Len(after) = Len(before) + 1
  /\ \A i \in 1..Len(before) : after[i + 1] = before[i]
GrowsAtEnd(before, after) ==
  /\ Len(after) = Len(before) + 1
  /\ \A i \in 1..Len(before) : after[i] = before[i]

\* C19: on success addNote puts the note the store returned at the front of
\* the local notes, addHabit and addTask put theirs at the end of their list;
\* the habit has the id and creation time the store assigned and no completion
\* date; the records already there keep their order.
C19_NewRecordPlacement ==
  [][\A n \in DOMAIN ops :
       (Continues(n) /\ ops[n].ok) =>
         LET row == ops[n].data IN
         /\ ops[n].kind = "addNote" =>
              /\ GrowsAtFront(notes, notes')
              /\ notes'[1].id = row.id
              /\ notes'[1].content = ops[n].arg[1]
         /\ ops[n].kind = "addHabit" =>
              /\ GrowsAtEnd(habits, habits')
              /\ habits'[Len(habits')].id = row.id
              /\ habits'[Len(habits')].createdAt = row.created_at
              /\ row.id \in DOMAIN owner /\ row.id \notin {r.id : r \in ops[n].snap.db.habits}
              /\ habits'[Len(habits')].completedDays = <<>>
              /\ habits'[Len(habits')].name = ops[n].arg[1]
         /\ ops[n].kind = "addTask" =>
              /\ GrowsAtEnd(tasks, tasks')
              /\ tasks'[Len(tasks')].id = row.id
              /\ tasks'[Len(tasks')].title = ops[n].arg[1]]_vars

\* addNote has succeeded with a note already in the list, and the new note is
\* in front of it
C19_Witness ==
  /\ prior.kind = "addNote"
  /\ prior.ok
  /\ prior.snap.notes # <<>>
  /\ Len(notes) = Len(prior.snap.notes) + 1
  /\ notes[2] = prior.snap.notes[1]

\* C20: no sleep entry, in the store or in local state, has hours below 0 or
\* above 24, whatever hours addSleepEntry is called with.
C20_HoursWithinDay ==
  /\ \A r \in db.sleep : r.hours >= 0 /\ r.hours <= 2400
  /\ \A i \in 1..Len(sleepEntries) :
       sleepEntries[i].hours >= 0 /\ sleepEntries[i].hours <= 2400

\* ------------------------------------------------------------ rapid toggles
\* invocations in one behaviour of SpecRapid
RapidOps == 3

\* The first load and toggles of the loaded habits, on either date, a toggle
\* started while another one is awaited or not.
InitRapid == Mounted("u1", SeededDb, RapidOps)

NextRapid ==
  \/ \E n \in InFlight : Serve(n)
  \/ \E n \in InFlight : Fail(n)
  \/ \E n \in InFlight : LoadThen(n)
  \/ \E id \in HabitIds \ {0}, d \in Dates : toggleHabitDay(id, d)
  \/ \E n \in InFlight : toggleHabitDayThen(n)

SpecRapid == InitRapid /\ [][NextRapid]_vars

\* the completion dates local state shows for habit h are those of the
\* completion rows the store holds for it
Mirrors(h) == LocalDates(habits, h) = StoreDates(db, h)

\* nothing is in flight and two more invocations can be made
Quiet == ops = <<>> /\ user # NoUser /\ started + 2 <= limit

\* a step of two toggles of (h, d) once the first is called: the second call,
\* made while the first is awaited, the store's answer to either, the loss of
\* either request, the continuation of either
PairStep(h, d) ==
  \/ InFlight # {} /\ toggleHabitDay(h, d)
  \/ \E n \in InFlight : Serve(n)
  \/ \E n \in InFlight : Fail(n)
  \/ \E n \in InFlight : toggleHabitDayThen(n)

\* both calls made after invocation s have resolved and local state differs
\* from the store
Diverged(h, s) == ops = <<>> /\ started = s + 2 /\ ~Mirrors(h)

\* some k steps of the pair lead to Diverged
Diverges1(h, d, s) == ENABLED (PairStep(h, d) /\ Diverged(h, s)')
Diverges2(h, d, s) == ENABLED (PairStep(h, d) /\ Diverges1(h, d, s)')
Diverges3(h, d, s) == ENABLED (PairStep(h, d) /\ Diverges2(h, d, s)')
Diverges4(h, d, s) == ENABLED (PairStep(h, d) /\ Diverges3(h, d, s)')
Diverges5(h, d, s) == ENABLED (PairStep(h, d) /\ Diverges4(h, d, s)')

\* there is an interleaving of two calls toggleHabitDay(h, d), the second
\* made while the first is awaited, after which local state differs from the
\* store: the first call, then the five steps that remain (the second call,
\* two responses, two continuations)
CanDiverge(h, d) ==
  \E s \in 0..limit :
    /\ s = started
    /\ ENABLED (toggleHabitDay(h, d) /\ Diverges5(h, d, s)')

TogetherWith(n) ==
  \E m \in DOMAIN ops \ {n} :
    /\ ops[m].kind = "addSleepEntry"
    /\ ops[m].arg[1] = ops[n].arg[1]
    /\ ops[m].arg[2] # ops[n].arg[2]

\* C22: of two addSleepEntry calls for one date in flight together, each write
\* the store applies leaves the date's row with the hours of that call (so the
\* store ends with the hours of the write applied last), and each continuation
\* after a success leaves one local entry for the date, with the hours of that
\* call (so local state ends with those of the response that resolved last).
C22_LastNightWins ==
  [][\A n \in DOMAIN ops :
       ops[n].kind = "addSleepEntry" =>
         LET date == ops[n].arg[1]
             hours == ops[n].arg[2]
         IN /\ (Served(n) /\ ops'[n].ok /\ TogetherWith(n)) =>
                 \E r \in db'.sleep :
                   Nights(db', ops[n].uid, date) = {r} /\ r.hours = hours
            /\ (Continues(n) /\ ops[n].ok) =>
                 \E i \in 1..Len(sleepEntries') :
                   Entries(sleepEntries', date) = {i} /\ sleepEntries'[i].hours = hours]_vars

\* ------------------------------------------------------ the join of the load
\* loads in one behaviour of SpecJoin
JoinOps == 2

\* rows of earlier sessions: two habits of u1, the later id created first, and
\* a habit of u2
JoinDb ==
  [habits |-> {[id |-> 1, user_id |-> "u1", name |-> "run", color |-> "red", created_at |-> 2],
               [id |-> 2, user_id |-> "u2", name |-> "read", color |-> "red", created_at |-> 3],
               [id |-> 3, user_id |-> "u1", name |-> "swim", color |-> "blue", created_at |-> 1]},
   completions |-> {},
   sleep |-> {},
   tasks |-> {},
   notes |-> {[id |-> 4, user_id |-> "u1", content |-> "hi", date |-> 1, created_at |-> 4]}]

\* the completion rows the table can hold under the habits of u1: a row of
\* either owner (the insert policy checks the row's user_id only), one row per
\* habit and date (UNIQUE(habit_id, date))
CompletionTables ==
  {cs \in SUBSET [habit_id : {1, 3}, user_id : Users, date : Dates] :
     \A a, b \in cs : (a.habit_id = b.habit_id /\ a.date = b.date) => a = b}

InitJoin ==
  \E u \in Users, cs \in CompletionTables :
    Mounted(u, [JoinDb EXCEPT !.completions = cs], JoinOps)

\* the loads of SpecJoin run one after the other
NextJoin ==
  \/ \E u \in Users : InFlight = {} /\ AuthChange(u)
  \/ \E n \in InFlight : Serve(n)
  \/ \E n \in InFlight : Fail(n)
  \/ \E n \in InFlight : LoadThen(n)

SpecJoin == InitJoin /\ [][NextJoin]_vars

\* C23: when a load for owner U that ran alone ends after its five fetches
\* succeeded, the local habits are U's habit rows, each once, in ascending
\* order of creation, and the completedDays of each is the dates of U's
\* completion rows with its habit_id, each once.
C23_LoadJoinsCompletions ==
  [][\A n \in DOMAIN ops :
       (Ends(n) /\ ops[n].kind = "load" /\ ops[n].ok /\ RanAlone(n)) =>
         LET U == ops[n].uid
             rows == {r \in db'.habits : r.user_id = U}
             dates(id) == {c.date : c \in {x \in db'.completions :
                                             x.user_id = U /\ x.habit_id = id}}
         IN /\ Len(habits') = Cardinality(rows)
            /\ \A r \in rows : \E i \in 1..Len(habits') :
                 /\ habits'[i].id = r.id
                 /\ habits'[i].name = r.name
                 /\ habits'[i].color = r.color
                 /\ habits'[i].createdAt = r.created_at
            /\ \A i, j \in 1..Len(habits') :
                 i < j => habits'[i].createdAt <= habits'[j].createdAt
            /\ \A i \in 1..Len(habits') :
                 /\ Range(habits'[i].completedDays) = dates(habits'[i].id)
                 /\ NoDuplicates(habits'[i].completedDays)]_vars

\* a load that ran alone has succeeded for an owner with two habits, one of
\* them completed on a day the other is not, while the store holds a
\* completion row of the other owner under one of these habits
C23_Witness ==
  /\ prior.kind = "load"
  /\ prior.ok
  /\ Len(habits) = 2
  /\ Range(habits[1].completedDays) # {}
  /\ Range(habits[1].completedDays) # Range(habits[2].completedDays)
  /\ \E c \in db.completions :
       /\ c.user_id # user
       /\ c.habit_id = habits[2].id
       /\ c.date \notin Range(habits[2].completedDays)

\* ------------------------------------------------- the loop of calculateStreak
\* the iterations the model follows the loop for
MaxStreak == 6

\* calculateStreak is running
Counting == called[1] = "calculateStreak" /\ ~called[2].done

\* calculateStreak() is called on day today: `if (habits.length === 0) return 0`,
\* else streak = 0 and date = today
calculateStreakCall(today) ==
  /\ ~Counting
  /\ called' = <<"calculateStreak",
                 [today |-> today, date |-> today, streak |-> 0,
                  done |-> Len(habits) = 0]>>
  /\ UNCHANGED <<user, db, seq, habits, sleepEntries, tasks, notes, loading, ops,
                 started, limit, toast, owner, prior>>

\* a bug: the iteration lacks date.setDate(date.getDate() - 1)
calculateStreakLoopSameDay ==
  /\ Counting
  /\ called[2].streak < MaxStreak
  /\ LET c == called[2]
         anyCompleted == \E i \in 1..Len(habits) : c.date \in Range(habits[i].completedDays)
     IN called' = <<"calculateStreak",
                    IF ~anyCompleted THEN [c EXCEPT !.done = TRUE]
                    ELSE [c EXCEPT !.streak = @ + 1]>>
  /\ UNCHANGED <<user, db, seq, habits, sleepEntries, tasks, notes, loading, ops,
                 started, limit, toast, owner, prior>>

\* one iteration of `while (true)`: break when no habit is completed on date,
\* else count the day and step one day back
calculateStreakLoop ==
  /\ Counting
  /\ called[2].streak < MaxStreak
  /\ LET c == called[2]
         anyCompleted == \E i \in 1..Len(habits) : c.date \in Range(habits[i].completedDays)
     IN called' = <<"calculateStreak",
                    IF ~anyCompleted THEN [c EXCEPT !.done = TRUE]
                    ELSE [c EXCEPT !.streak = @ + 1, !.date = @ - 1]>>
  /\ UNCHANGED <<user, db, seq, habits, sleepEntries, tasks, notes, loading, ops,
                 started, limit, toast, owner, prior>>

NextStreak ==
  \/ \E today \in Todays : calculateStreakCall(today)
  \/ calculateStreakLoop

\* the loop is synchronous: once called it runs on
SpecStreak == InitStats /\ [][NextStreak]_vars /\ WF_vars(calculateStreakLoop)

\* C24: calculateStreak terminates for every list of habits, and the streak it
\* counts is at most the number of distinct dates in the habits' completion
\* lists.
C24_StreakTerminates ==
  /\ [](called[1] = "calculateStreak" => called[2].streak <= Cardinality(DaysDone))
  /\ (Counting ~> (called[1] = "calculateStreak" /\ called[2].done))

\* the loop has ended on a streak of as many days as the habits have dates,
\* three or more
C24_Witness ==
  /\ called[1] = "calculateStreak"
  /\ called[2].done
  /\ called[2].streak = Cardinality(DaysDone)
  /\ called[2].streak >= 3

\* ------------------------------------------------- operations one at a time
\* invocations in one behaviour of SpecSerial
SerialOps == 3

\* Every operation of the hook, each invoked only once the previous one has
\* resolved; updateHabit is given a name and/or a color.
InitSerial == Mounted("u1", SeededDb, SerialOps)

NextSerial ==
  \/ /\ InFlight = {}
     /\ \/ \E u \in Users \cup {NoUser} : AuthChange(u)
        \/ \E a \in HabitArgs : addHabit(a[1], a[2])
        \/ \E id \in HabitIds, u \in HabitUpdates : updateHabit(id, u)
        \/ \E id \in HabitIds : deleteHabit(id)
        \/ \E id \in HabitIds, d \in Dates : toggleHabitDay(id, d)
        \/ \E a \in SleepArgs : addSleepEntry(a[1], a[2])
        \/ \E a \in TaskArgs : addTask(a[1], a[2], a[3])
        \/ \E id \in TaskIds, u \in TaskUpdates : updateTask(id, u)
        \/ \E id \in TaskIds : deleteTask(id)
        \/ \E a \in NoteArgs : addNote(a[1], a[2])
        \/ \E id \in NoteIds, c \in NoteUpdates : updateNote(id, c)
        \/ \E id \in NoteIds : deleteNote(id)
  \/ \E n \in InFlight : Serve(n)
  \/ \E n \in InFlight : Fail(n)
  \/ \E n \in InFlight : LoadThen(n)
  \/ \E n \in InFlight : addHabitThen(n)
  \/ \E n \in InFlight : updateHabitThen(n)
  \/ \E n \in InFlight : deleteHabitThen(n)
  \/ \E n \in InFlight : toggleHabitDayThen(n)
  \/ \E n \in InFlight : addSleepEntryThen(n)
  \/ \E n \in InFlight : addTaskThen(n)
  \/ \E n \in InFlight : updateTaskThen(n)
  \/ \E n \in InFlight : deleteTaskThen(n)
  \/ \E n \in InFlight : addNoteThen(n)
  \/ \E n \in InFlight : updateNoteThen(n)
  \/ \E n \in InFlight : deleteNoteThen(n)

SpecSerial == InitSerial /\ [][NextSerial]_vars

\* the local collections hs, es, ts, ns are the rows of owner U in store d:
\* the same habits with the same name, color and completion dates, the same
\* hours per sleep date, the same tasks, the same notes, each once
MirrorOf(hs, es, ts, ns, d, U) ==
  LET dates(id) == {c.date : c \in {x \in d.completions :
                                      x.user_id = U /\ x.habit_id = id}}
      habitRows == {r \in d.habits : r.user_id = U}
      sleepRows == {r \in d.sleep : r.user_id = U}
      taskRows == {r \in d.tasks : r.user_id = U}
      noteRows == {r \in d.notes : r.user_id = U}
  IN /\ Len(hs) = Cardinality(habitRows)
     /\ {<<hs[i].id, hs[i].name, hs[i].color, Range(hs[i].completedDays)>> :
           i \in 1..Len(hs)}
          = {<<r.id, r.name, r.color, dates(r.id)>> : r \in habitRows}
     /\ Len(es) = Cardinality(sleepRows)
     /\ Range(es) = {SleepEntryOf(r) : r \in sleepRows}
     /\ Len(ts) = Cardinality(taskRows)
     /\ Range(ts) = {TaskOf(r) : r \in taskRows}
     /\ Len(ns) = Cardinality(noteRows)
     /\ Range(ns) = {NoteOf(r) : r \in noteRows}

\* C25: with operations one at a time, the local mirror is the owner's rows
\* in the store after every completed operation, once a load for the owner
\* has succeeded: it is after a successful load, and every operation that
\* starts with the mirror equal to the owner's rows ends with it equal.
C25_SerialMirror ==
  [][\A n \in DOMAIN ops :
       (/\ Ends(n)
        /\ RanAlone(n)
        /\ \/ ops[n].kind = "load" /\ ops[n].ok
           \/ MirrorOf(ops[n].snap.habits, ops[n].snap.sleepEntries, ops[n].snap.tasks,
                       ops[n].snap.notes, ops[n].snap.db, ops[n].uid)) =>
         MirrorOf(habits', sleepEntries', tasks', notes', db', ops[n].uid)]_vars

\* no two records of list s have the same id
UniqueIds(s) == \A i, j \in 1..Len(s) : i # j => s[i].id # s[j].id

\* C26: in every reachable state no two local habits share an id, no two
\* local tasks and no two local notes.
C26_UniqueLocalIds ==
  /\ UniqueIds(habits)
  /\ UniqueIds(tasks)
  /\ UniqueIds(notes)

\* --------------------------------------------- the local-storage hook useHabits
\* invocations in one behaviour of SpecTwin
TwinOps == 3

\* crypto.randomUUID() and new Date() of useHabits: an id and a time that no
\* record of the remote-backed hook has
LocalId == -1
LocalNow == -1

\* the four lists of useHabits after operation kind with arguments arg, from
\* the lists s
useHabits(kind, arg, s) ==
  LET id == arg[1]
      other(r) == r.id # id
  IN CASE kind = "addHabit" ->
            [s EXCEPT !.habits = Append(@, [id |-> LocalId, name |-> arg[1], color |-> arg[2],
                                            createdAt |-> LocalNow, completedDays |-> <<>>])]
       [] kind = "updateHabit" ->
            LET patch(h) == IF h.id = id THEN Merge(h, arg[2]) ELSE h
            IN [s EXCEPT !.habits = MapSeq(@, patch)]
       [] kind = "deleteHabit" -> [s EXCEPT !.habits = FilterSeq(@, other)]
       [] kind = "toggleHabitDay" ->
            LET date == arg[2]
                otherDay(d) == d # date
                patch(h) ==
                  IF h.id # id THEN h
                  ELSE [h EXCEPT !.completedDays =
                          IF date \in Range(@) THEN FilterSeq(@, otherDay)
                          ELSE Append(@, date)]
            IN [s EXCEPT !.habits = MapSeq(@, patch)]
       [] kind = "addSleepEntry" ->
            LET found == {i \in 1..Len(s.sleepEntries) : s.sleepEntries[i].date = arg[1]}
                entry == [date |-> arg[1], hours |-> arg[2]]
            IN [s EXCEPT !.sleepEntries =
                  IF found # {}
                  THEN [@ EXCEPT ![CHOOSE i \in found : \A j \in found : i <= j] = entry]
                  ELSE Append(@, entry)]
       [] kind = "addTask" ->
            [s EXCEPT !.tasks = Append(@, [id |-> LocalId, title |-> arg[1], date |-> arg[2],
                                           completed |-> FALSE, color |-> arg[3]])]
       [] kind = "updateTask" ->
            LET patch(t) == IF t.id = id THEN Merge(t, arg[2]) ELSE t
            IN [s EXCEPT !.tasks = MapSeq(@, patch)]
       [] kind = "deleteTask" -> [s EXCEPT !.tasks = FilterSeq(@, other)]
       [] kind = "addNote" ->
            [s EXCEPT !.notes = Append(@, [id |-> LocalId, content |-> arg[1],
                                           date |-> arg[2], createdAt |-> LocalNow])]
       [] kind = "updateNote" ->
            LET patch(r) == IF r.id = id THEN [r EXCEPT !.content = arg[2]] ELSE r
            IN [s EXCEPT !.notes = MapSeq(@, patch)]
       [] kind = "deleteNote" -> [s EXCEPT !.notes = FilterSeq(@, other)]

\* the notes the presentation writes in SpecTwin
TwinNotes == {<<"hi", 1>>, <<"yo", 1>>}

\* The remote-backed hook from an empty store, its operations one at a time.
InitTwin == Mounted("u1", EmptyDb, TwinOps)

NextTwin ==
  \/ /\ InFlight = {}
     /\ \/ \E a \in HabitArgs : addHabit(a[1], a[2])
        \/ \E id \in HabitIds, u \in HabitUpdates : updateHabit(id, u)
        \/ \E id \in HabitIds : deleteHabit(id)
        \/ \E id \in HabitIds, d \in Dates : toggleHabitDay(id, d)
        \/ \E a \in SleepArgs : addSleepEntry(a[1], a[2])
        \/ \E a \in TaskArgs : addTask(a[1], a[2], a[3])
        \/ \E id \in TaskIds, u \in TaskUpdates : updateTask(id, u)
        \/ \E id \in TaskIds : deleteTask(id)
        \/ \E a \in TwinNotes : addNote(a[1], a[2])
        \/ \E id \in NoteIds, c \in NoteUpdates : updateNote(id, c)
        \/ \E id \in NoteIds : deleteNote(id)
  \/ \E n \in InFlight : Serve(n)
  \/ \E n \in InFlight : Fail(n)
  \/ \E n \in InFlight : LoadThen(n)
  \/ \E n \in InFlight : addHabitThen(n)
  \/ \E n \in InFlight : updateHabitThen(n)
  \/ \E n \in InFlight : deleteHabitThen(n)
  \/ \E n \in InFlight : toggleHabitDayThen(n)
  \/ \E n \in InFlight : addSleepEntryThen(n)
  \/ \E n \in InFlight : addTaskThen(n)
  \/ \E n \in InFlight : updateTaskThen(n)
  \/ \E n \in InFlight : deleteTaskThen(n)
  \/ \E n \in InFlight : addNoteThen(n)
  \/ \E n \in InFlight : updateNoteThen(n)
  \/ \E n \in InFlight : deleteNoteThen(n)

SpecTwin == InitTwin /\ [][NextTwin]_vars

\* records with their ids and timestamps aside
NoIdHabit(h) == [name |-> h.name, color |-> h.color, completedDays |-> h.completedDays]
NoIdTask(t) == [title |-> t.title, date |-> t.date, completed |-> t.completed,
                color |-> t.color]
NoIdNote(r) == [content |-> r.content, date |-> r.date]

\* two hooks hold the same four lists in the same order, ids and timestamps
\* aside
SameLists(a, b) ==
  /\ MapSeq(a.habits, NoIdHabit) = MapSeq(b.habits, NoIdHabit)
  /\ a.sleepEntries = b.sleepEntries
  /\ MapSeq(a.tasks, NoIdTask) = MapSeq(b.tasks, NoIdTask)
  /\ MapSeq(a.notes, NoIdNote) = MapSeq(b.notes, NoIdNote)

\* C27: from empty data and with operations one at a time, the two hooks hold
\* the same lists in the same order, ids and timestamps aside: both are empty
\* after the load, and every operation whose remote write succeeds leaves
\* useHabitsDb with the lists useHabits would have made of the lists before.
C27_HooksEquivalent ==
  [][\A n \in DOMAIN ops :
       (Ends(n) /\ RanAlone(n) /\ ops[n].ok) =>
         LET after == [habits |-> habits', sleepEntries |-> sleepEntries',
                       tasks |-> tasks', notes |-> notes']
             empty == [habits |-> <<>>, sleepEntries |-> <<>>, tasks |-> <<>>,
                       notes |-> <<>>]
         IN IF ops[n].kind = "load" THEN SameLists(after, empty)
            ELSE SameLists(after, useHabits(ops[n].kind, ops[n].arg, ops[n].snap))]_vars

\* ------------------------------------------------------------------ frames
HabitOperations == {"addHabit", "updateHabit", "deleteHabit", "toggleHabitDay"}
TaskOperations == {"addTask", "updateTask", "deleteTask"}
NoteOperations == {"addNote", "updateNote", "deleteNote"}

\* the records of list before that do not have id are in list after, with
\* their contents, in their order; with keep, at their places
OthersKept(before, after, id, keep) ==
  LET other(r) == r.id # id
  IN /\ SelectSeq(after, other) = SelectSeq(before, other)
     /\ keep => /\ Len(after) = Len(before)
                /\ \A i \in 1..Len(before) : before[i].id # id => after[i] = before[i]

\* the same for the sleep entries of another date
OtherNightsKept(before, after, date) ==
  LET other(e) == e.date # date
  IN /\ SelectSeq(after, other) = SelectSeq(before, other)
     /\ Len(after) \in {Len(before), Len(before) + 1}
     /\ \A i \in 1..Len(before) : before[i].date # date => after[i] = before[i]

\* what a step of a mutation of this kind, with these arguments, may change
Frame(kind, arg) ==
  /\ kind \in HabitOperations => UNCHANGED <<sleepEntries, tasks, notes>>
  /\ kind = "addSleepEntry" => UNCHANGED <<habits, tasks, notes>>
  /\ kind \in TaskOperations => UNCHANGED <<habits, sleepEntries, notes>>
  /\ kind \in NoteOperations => UNCHANGED <<habits, sleepEntries, tasks>>
  /\ kind = "addHabit" => habits' = habits \/ GrowsAtEnd(habits, habits')
  /\ kind = "addTask" => tasks' = tasks \/ GrowsAtEnd(tasks, tasks')
  /\ kind = "addNote" => notes' = notes \/ GrowsAtFront(notes, notes')
  /\ kind \in {"updateHabit", "toggleHabitDay"} => OthersKept(habits, habits', arg[1], TRUE)
  /\ kind = "deleteHabit" => OthersKept(habits, habits', arg[1], FALSE)
  /\ kind = "updateTask" => OthersKept(tasks, tasks', arg[1], TRUE)
  /\ kind = "deleteTask" => OthersKept(tasks, tasks', arg[1], FALSE)
  /\ kind = "updateNote" => OthersKept(notes, notes', arg[1], TRUE)
  /\ kind = "deleteNote" => OthersKept(notes, notes', arg[1], FALSE)
  /\ kind = "addSleepEntry" => OtherNightsKept(sleepEntries, sleepEntries', arg[1])

\* C28: every step of a mutation, its call and its continuation, leaves the
\* three local collections it does not belong to unchanged, and in its own
\* every record it does not target with its contents and in its order.
C28_MutationFrame ==
  [][/\ (Invokes /\ called'[1] \in Mutations) => Frame(called'[1], called'[2])
     /\ \A n \in DOMAIN ops :
          (Continues(n) /\ ops[n].kind \in Mutations) =>
            Frame(ops[n].kind, ops[n].arg)]_vars

\* updateTask has succeeded on one of two tasks or more, and has changed it
C28_Witness ==
  /\ prior.kind = "updateTask"
  /\ prior.ok
  /\ Len(tasks) >= 2
  /\ tasks # prior.snap.tasks

\* ---------------------------------------------------------------- loading
\* invocations in one behaviour of SpecLoading
LoadingOps == 3

\* Loads under any owner or none, and addHabit beside them.
InitLoading == \E u \in {"u1", NoUser} : Mounted(u, SeededDb, LoadingOps)

NextLoading ==
  \/ \E u \in Users \cup {NoUser} : AuthChange(u)
  \/ \E n \in InFlight : Serve(n)
  \/ \E n \in InFlight : Fail(n)
  \/ \E n \in InFlight : LoadThen(n)
  \/ \E a \in HabitArgs : addHabit(a[1], a[2])
  \/ \E n \in InFlight : addHabitThen(n)

\* every remote request gets its response, and the handler that awaits it
\* then runs on
Responsive ==
  \A n \in 1..LoadingOps :
    /\ WF_vars(Serve(n) \/ Fail(n))
    /\ WF_vars(LoadThen(n))

SpecLoading == InitLoading /\ [][NextLoading]_vars /\ Responsive

\* every operation of the hook can be invoked
Invocable ==
  /\ \A u \in Users \cup {NoUser} : ENABLED AuthChange(u)
  /\ \A a \in HabitArgs : ENABLED addHabit(a[1], a[2])
  /\ \A id \in HabitIds, u \in HabitUpdates : ENABLED updateHabit(id, u)
  /\ \A id \in HabitIds : ENABLED deleteHabit(id)
  /\ \A id \in HabitIds, d \in Dates : ENABLED toggleHabitDay(id, d)
  /\ \A a \in SleepArgs : ENABLED addSleepEntry(a[1], a[2])
  /\ \A a \in TaskArgs : ENABLED addTask(a[1], a[2], a[3])
  /\ \A id \in TaskIds, u \in TaskUpdates : ENABLED updateTask(id, u)
  /\ \A id \in TaskIds : ENABLED deleteTask(id)
  /\ \A a \in NoteArgs : ENABLED addNote(a[1], a[2])
  /\ \A id \in NoteIds, c \in NoteUpdates : ENABLED updateNote(id, c)
  /\ \A id \in NoteIds : ENABLED deleteNote(id)

\* the latest handler step reported a failed load or a failed mutation
Failed == toast = "Failed to load data" \/ toast \in MutationErrors

\* C29: every load ends with loading false, whether it succeeds, fails at a
\* fetch or runs with no owner; loading, once false, stays false; and after a
\* failed load or mutation every operation can be invoked (within the number
\* of invocations the model follows).
C29_LoadingEnds ==
  /\ \A n \in 1..LoadingOps :
       (n \in DOMAIN ops /\ ops[n].kind = "load") ~> (n \notin DOMAIN ops /\ ~loading)
  /\ [](called[1] = "fetchData" /\ user = NoUser => ~loading)
  /\ [][~loading => ~loading']_vars
  /\ []((Failed /\ CanStart) => Invocable)

\* a load has failed at a fetch after its first, has set loading to false,
\* and another invocation can be made
C29_Witness ==
  /\ toast = "Failed to load data"
  /\ prior.kind = "load"
  /\ ~prior.ok
  /\ habits # prior.snap.habits
  /\ ~loading
  /\ CanStart

\* ------------------------------------------ the pages over the sync hook
\* invocations in SpecMonth: the first load, a reload and a tick for every day
\* of the window of habitStats
MonthOps == 32

\* the days of the window of habitStats on day Today
Window == {Today - i : i \in 0..(Last30 - 1)}

\* the days of the window the grid shows as completed for habit id
Ticked(id) ==
  UNION {Range(habits[i].completedDays) \cap Window :
           i \in {j \in 1..Len(habits) : habits[j].id = id}}

\* the user fills the grid backward from today: the latest day of the window
\* that is not ticked yet
NextTick(id) ==
  {d \in Window \ Ticked(id) : \A e \in Window \ Ticked(id) : e <= d}

\* One account fills the month of its habit, day by day, and the pages render
\* between its clicks; its session is refreshed once, early on (the effect
\* loads again); only the tick of today overlaps with a load, and every remote
\* call reaches the store.
InitMonth == Mounted("u1", SeededDb, MonthOps)

NextMonth ==
  \/ started < 3 /\ AuthChange("u1")
  \/ \E n \in InFlight : Serve(n)
  \/ \E n \in InFlight : LoadThen(n)
  \/ \E id \in HabitIds \ {0} : \E d \in NextTick(id) :
       /\ d = Today \/ InFlight = {}
       /\ toggleHabitDay(id, d)
  \/ \E n \in InFlight : toggleHabitDayThen(n)
  \/ InFlight = {} /\ Dashboard(Today)
  \/ InFlight = {} /\ Analytics(Today)

SpecMonth == InitMonth /\ [][NextMonth]_vars

\* C30: whatever habits the hook's local state holds, the completion rate of
\* today and the 30-day completion rate of every habit are integers from 0 to
\* 100, and no habit has more than 30 completions counted in its last 30 days.
C30_RatesWithinBounds ==
  /\ called[1] = "Dashboard" => called[2].completionRate \in 0..100
  /\ called[1] = "Analytics" =>
       \A i \in 1..Len(called[2].habitStats) :
         /\ called[2].habitStats[i].completionRate \in 0..100
         /\ called[2].habitStats[i].last30Count <= Last30

====
